---- MODULE Spec2Model ----
(***************************************************************************)
(* Model of the search handler, the summarizer and the dashboard of        *)
(* it-dashboard.                                                           *)
(*                                                                         *)
(* Three revisions of the GET handler are in the repository:               *)
(*   "edge"  : src/app/api/search/route.ts          (Edge runtime, fetch)  *)
(*   "fs"    : src/unnamed/part_000, lines 1-329    (fs.readFile)          *)
(*   "fetch" : src/unnamed/part_000, lines 330-592  (fetch, no try/catch)  *)
(*                                                                         *)
(* A text is a sequence of characters; a character is a one-letter name.   *)
(* "K1".."K4" stand for characters of the class [ぁ-んァ-ヶー一-龯]; " " is     *)
(* whitespace, "_" is a \w character that is not [A-Za-z0-9], "-" is       *)
(* punctuation.  Scores are exact rationals [n, d] (the code uses IEEE     *)
(* doubles; rounding error of doubles is not modelled).                    *)
(*                                                                         *)
(* Specifications:                                                         *)
(*   Spec            : GET /api/search, one request after another          *)
(*   SpecInterleaved : GET /api/search, two invocations in flight          *)
(*   SpecCap         : GET /api/search over a manifest longer than the cap *)
(*   SpecTokenize    : tokenize on every short text                        *)
(*   SpecScore       : calculateBM25 and titleBoost on chosen arguments    *)
(*   SpecSummarize   : POST /api/summarize (src/app/api/summarize/route.ts)*)
(*   SpecSnippet     : generateSnippet on texts around the window width    *)
(*   SpecFaulty      : GET /api/search over index files of the wrong shape *)
(*   SpecDashboard   : the dashboard components (src/app/dashboard/page.tsx*)
(*                     twice, and GovITDashboard of summarize/route.ts)    *)
(*   SpecDashboardFair : the same, with fetches that settle in the end     *)
(***************************************************************************)
EXTENDS Integers, Sequences, FiniteSets, TLC

\* ------------------------------------------------------------------------
\* Bounds of the model
\* ------------------------------------------------------------------------
MaxManifest == 2

MaxSize == 2

\* ------------------------------------------------------------------------
\* Characters
\* ------------------------------------------------------------------------
CJKChars == {"K1", "K2", "K3", "K4"}

AlnumChars == {"a", "i", "x", "A", "I", "1"}

WordChars == AlnumChars \cup {"_"}

SpaceChars == {" "}

toLowerCase(c) == IF c = "A" THEN "a" ELSE IF c = "I" THEN "i" ELSE c

lowerText(t) == [k \in 1..Len(t) |-> toLowerCase(t[k])]

\* String.prototype.trim
RECURSIVE trimStart(_)
trimStart(t) ==
    IF t # <<>> /\ Head(t) \in SpaceChars THEN trimStart(Tail(t)) ELSE t

RECURSIVE trimEnd(_)
trimEnd(t) ==
    IF t # <<>> /\ t[Len(t)] \in SpaceChars
    THEN trimEnd(SubSeq(t, 1, Len(t) - 1)) ELSE t

trim(t) == trimEnd(trimStart(t))

\* ------------------------------------------------------------------------
\* Regular expression matching: text.match(/[cls]{lo,hi}/g)
\* ------------------------------------------------------------------------
RECURSIVE RunLen(_, _, _, _)
RunLen(t, i, cls, hi) ==
    IF hi = 0 \/ i > Len(t) \/ t[i] \notin cls THEN 0
    ELSE 1 + RunLen(t, i + 1, cls, hi - 1)

RECURSIVE MatchFrom(_, _, _, _, _)
MatchFrom(t, i, cls, lo, hi) ==
    IF i > Len(t) THEN <<>>
    ELSE LET n == RunLen(t, i, cls, hi)
         IN  IF n >= lo
             THEN <<SubSeq(t, i, i + n - 1)>> \o MatchFrom(t, i + n, cls, lo, hi)
             ELSE MatchFrom(t, i + 1, cls, lo, hi)

MatchAll(t, cls, lo, hi) == MatchFrom(t, 1, cls, lo, hi)

\* [...new Set(list)]: first occurrences, in order
RECURSIVE Dedupe(_)
Dedupe(s) ==
    IF s = <<>> THEN <<>>
    ELSE LET r == Dedupe(SubSeq(s, 1, Len(s) - 1))
             x == s[Len(s)]
         IN  IF \E k \in 1..Len(r) : r[k] = x THEN r ELSE Append(r, x)

includes(list, x) == \E k \in 1..Len(list) : list[k] = x

\* ------------------------------------------------------------------------
\* tokenize
\* ------------------------------------------------------------------------
IsCleanChar(c) == c \in WordChars \cup SpaceChars \cup CJKChars

HasCJK(s) == \E k \in 1..Len(s) : s[k] \in CJKChars

RECURSIVE Bigrams(_, _)
Bigrams(tc, i) ==
    IF i >= Len(tc) THEN <<>>
    ELSE LET bigram == SubSeq(tc, i, i + 1)
         IN  (IF HasCJK(bigram) THEN <<bigram>> ELSE <<>>) \o Bigrams(tc, i + 1)

IsLongToken(t) == Len(t) >= 2

\* src/app/api/search/route.ts
tokenizeEdge(text) ==
    LET wordTokens   == MatchAll(text, CJKChars, 2, 4)
        textClean    == SelectSeq(text, IsCleanChar)
        bigrams      == Bigrams(textClean, 1)
        alphanumeric == MatchAll(text, AlnumChars, 1, Len(text))
        tokens       == wordTokens \o bigrams \o alphanumeric
        lowered      == [k \in 1..Len(tokens) |-> lowerText(tokens[k])]
        uniqueTokens == Dedupe(lowered)
    IN  SelectSeq(uniqueTokens, IsLongToken)

\* src/unnamed/part_000, both revisions
tokenizePlain(text) ==
    LET japaneseTokens == MatchAll(text, CJKChars, 2, 4)
        alphanumeric   == MatchAll(text, AlnumChars, 1, Len(text))
        tokens         == japaneseTokens \o alphanumeric
    IN  [k \in 1..Len(tokens) |-> lowerText(tokens[k])]

tokenize(rev, text) ==
    IF rev = "edge" THEN tokenizeEdge(text) ELSE tokenizePlain(text)

\* ------------------------------------------------------------------------
\* Exact rational arithmetic for the scores
\* ------------------------------------------------------------------------
Abs(x) == IF x < 0 THEN -x ELSE x

RECURSIVE GCD(_, _)
GCD(a, b) == IF b = 0 THEN a ELSE GCD(b, a % b)

Frac(n, d) ==
    LET g == GCD(Abs(n), Abs(d))
        s == IF d < 0 THEN -1 ELSE 1
    IN  [n |-> (s * n) \div g, d |-> (s * d) \div g]

FInt(k) == [n |-> k, d |-> 1]

FAdd(x, y) == Frac(x.n * y.d + y.n * x.d, x.d * y.d)

FSub(x, y) == Frac(x.n * y.d - y.n * x.d, x.d * y.d)

FMul(x, y) == Frac(x.n * y.n, x.d * y.d)

FDiv(x, y) == Frac(x.n * y.d, x.d * y.n)

FLt(x, y) == x.n * y.d < y.n * x.d

FPos(x) == x.n > 0

\* Math.round(x * 10) / 10 ; Math.round rounds half up
Round1(x) == Frac((20 * x.n + x.d) \div (2 * x.d), 10)

\* ------------------------------------------------------------------------
\* Dates.  A chunk's date is undefined, null or a string; strings are
\* compared in code-unit order, which the rank r represents:
\*   0 = ""            1 = "2019-12-31"   2 = "2020-01-01"
\*   3 = "2025-08-01"  4 = "2030-12-31"   5 = "2031-01-01"
\* ------------------------------------------------------------------------
DateUndefined == [k |-> "undefined", r |-> 0]

DateNull == [k |-> "null", r |-> 0]

DateStr(r) == [k |-> "str", r |-> r]

DefaultFrom == 2

DefaultTo == 4

DefaultSize == 50

\* if (chunk.date): undefined, null and "" are falsy
Truthy(date) == date.k = "str" /\ date.r > 0

\* a < b for a chunk date a and a non-numeric string b: undefined and null
\* convert to NaN and 0, the string to NaN, and the comparison is false
JsLt(a, b) == a.k = "str" /\ b.k = "str" /\ a.r < b.r

JsGt(a, b) == JsLt(b, a)

\* ------------------------------------------------------------------------
\* Request parameters (searchParams.get returns null for a missing one)
\* ------------------------------------------------------------------------
Absent == [has |-> FALSE, v |-> <<>>]

Given(v) == [has |-> TRUE, v |-> v]

\* searchParams.get('q') || ''
ParseQuery(p) == IF p.has THEN p.v ELSE <<>>

\* searchParams.get('from') || '2020-01-01'
ParseFrom(p) == IF p.has /\ p.v # <<0>> THEN DateStr(p.v[1]) ELSE DateStr(DefaultFrom)

\* searchParams.get('to') || '2030-12-31'
ParseTo(p) == IF p.has /\ p.v # <<0>> THEN DateStr(p.v[1]) ELSE DateStr(DefaultTo)

IsNonEmptyName(x) == x # ""

\* searchParams.get(name)?.split(',').filter(Boolean) || []
ParseList(p) == IF p.has THEN SelectSeq(p.v, IsNonEmptyName) ELSE <<>>

\* parseInt(searchParams.get('size') || '50'); a size parameter is given as
\* <<"int", n>> (the decimal text of n) or <<"text">> (text parseInt rejects)
ParseSize(p) ==
    IF ~p.has THEN [nan |-> FALSE, v |-> DefaultSize]
    ELSE IF p.v[1] = "int" THEN [nan |-> FALSE, v |-> p.v[2]]
    ELSE [nan |-> TRUE, v |-> 0]

\* ------------------------------------------------------------------------
\* Scoring
\* ------------------------------------------------------------------------
termFreq(docTokens, token) ==
    Cardinality({k \in 1..Len(docTokens) : docTokens[k] = token})

\* idf[token] || 0
idfValue(idf, token) == IF token \in DOMAIN idf THEN idf[token] ELSE FInt(0)

\* mutant: numerator and denominator exchanged
ContributionInverted(tf, idfv, docLength, avgLength, k1, b) ==
    LET numerator   == FMul(FInt(tf), FAdd(k1, FInt(1)))
        ratio       == FDiv(FInt(docLength), avgLength)
        denominator == FAdd(FInt(tf),
                            FMul(k1, FAdd(FSub(FInt(1), b), FMul(b, ratio))))
    IN  FMul(idfv, FDiv(denominator, numerator))

\* idfValue * (tf * (k1 + 1)) / (tf + k1 * (1 - b + b * (docLength / avgLength)))
Contribution(tf, idfv, docLength, avgLength, k1, b) ==
    LET numerator   == FMul(FInt(tf), FAdd(k1, FInt(1)))
        ratio       == FDiv(FInt(docLength), avgLength)
        denominator == FAdd(FInt(tf),
                            FMul(k1, FAdd(FSub(FInt(1), b), FMul(b, ratio))))
    IN  FMul(idfv, FDiv(numerator, denominator))

RECURSIVE SumContrib(_, _, _, _, _, _, _, _)
SumContrib(queryTokens, docTokens, idf, docLength, avgLength, k1, b, needIdf) ==
    IF queryTokens = <<>> THEN FInt(0)
    ELSE LET token == Head(queryTokens)
             tf    == termFreq(docTokens, token)
             idfv  == idfValue(idf, token)
             rest  == SumContrib(Tail(queryTokens), docTokens, idf,
                                 docLength, avgLength, k1, b, needIdf)
         IN  IF tf > 0 /\ (needIdf => FPos(idfv))
             THEN FAdd(Contribution(tf, idfv, docLength, avgLength, k1, b), rest)
             ELSE rest

RECURSIVE SumCharCount(_)
SumCharCount(chunks) ==
    IF chunks = <<>> THEN 0 ELSE Head(chunks).char_count + SumCharCount(Tail(chunks))

\* src/app/api/search/route.ts: tokens of the chunk are generated from its text
calculateBM25Edge(queryTokens, chunk, shard) ==
    SumContrib(queryTokens, tokenizeEdge(chunk.text), shard.idf,
               chunk.char_count, shard.avg_length, shard.k1, shard.b, TRUE)

\* src/unnamed/part_000, first revision: parameters and tokens from the chunk
calculateBM25Fs(queryTokens, chunk, shard) ==
    SumContrib(queryTokens, chunk.tokens, shard.idf,
               chunk.char_count, chunk.avg_length, chunk.k1, chunk.b, TRUE)

\* src/unnamed/part_000, second revision: avgLength from the shard's chunks,
\* k1 = 1.5, b = 0.75, no test of idfValue > 0
calculateBM25Fetch(queryTokens, chunk, shard) ==
    SumContrib(queryTokens, chunk.tokens, shard.idf, chunk.char_count,
               Frac(SumCharCount(shard.chunks), Len(shard.chunks)),
               Frac(3, 2), Frac(3, 4), FALSE)

calculateBM25(rev, queryTokens, chunk, shard) ==
    IF rev = "edge" THEN calculateBM25Edge(queryTokens, chunk, shard)
    ELSE IF rev = "fs" THEN calculateBM25Fs(queryTokens, chunk, shard)
    ELSE calculateBM25Fetch(queryTokens, chunk, shard)

RECURSIVE CountMatches(_, _)
CountMatches(queryTokens, titleTokens) ==
    IF queryTokens = <<>> THEN 0
    ELSE (IF includes(titleTokens, Head(queryTokens)) THEN 1 ELSE 0)
         + CountMatches(Tail(queryTokens), titleTokens)

titleBoost(rev, queryTokens, title) ==
    FInt(CountMatches(queryTokens, tokenize(rev, title)) * 2)

\* ------------------------------------------------------------------------
\* generateSnippet
\* ------------------------------------------------------------------------
SnippetMaxLength == 200

SnippetStride == 50

Ellipsis == <<".", ".", ".">>

\* text.slice(a, b) for 0 <= a, with 0-based offsets
slice(t, a, b) ==
    LET e == IF b > Len(t) THEN Len(t) ELSE b
    IN  IF a >= e THEN <<>> ELSE SubSeq(t, a + 1, e)

\* window.includes(token)
includesText(window, token) ==
    \E k \in 0..(Len(window) - Len(token)) : slice(window, k, k + Len(token)) = token

WindowMatches(window, queryTokens) ==
    Cardinality({k \in 1..Len(queryTokens) :
                    includesText(window, lowerText(queryTokens[k]))})

\* mutant: a later window with as many matches replaces the best one
RECURSIVE ScanWindowsLast(_, _, _, _, _, _)
ScanWindowsLast(text, queryTokens, maxLength, i, bestStart, maxMatches) ==
    IF ~(i < Len(text) - maxLength) THEN bestStart
    ELSE LET matches == WindowMatches(slice(lowerText(text), i, i + maxLength),
                                      queryTokens)
         IN  IF matches >= maxMatches
             THEN ScanWindowsLast(text, queryTokens, maxLength,
                                  i + SnippetStride, i, matches)
             ELSE ScanWindowsLast(text, queryTokens, maxLength,
                                  i + SnippetStride, bestStart, maxMatches)

\* the scan loop: returns bestStart
RECURSIVE ScanWindows(_, _, _, _, _, _)
ScanWindows(text, queryTokens, maxLength, i, bestStart, maxMatches) ==
    IF ~(i < Len(text) - maxLength) THEN bestStart
    ELSE LET matches == WindowMatches(slice(lowerText(text), i, i + maxLength),
                                      queryTokens)
         IN  IF matches > maxMatches
             THEN ScanWindows(text, queryTokens, maxLength, i + SnippetStride,
                              i, matches)
             ELSE ScanWindows(text, queryTokens, maxLength, i + SnippetStride,
                              bestStart, maxMatches)

\* mutant: the trailing ellipsis is also added when the window ends exactly
\* at the end of the text
generateSnippetSuffix(text, queryTokens, maxLength) ==
    LET bestStart == ScanWindows(text, queryTokens, maxLength, 0, 0, 0)
        body      == slice(text, bestStart, bestStart + maxLength)
        pre       == IF bestStart > 0 THEN Ellipsis \o body ELSE body
        post      == IF bestStart + maxLength <= Len(text) THEN pre \o Ellipsis ELSE pre
    IN  trim(post)

generateSnippet(text, queryTokens, maxLength) ==
    LET bestStart == ScanWindows(text, queryTokens, maxLength, 0, 0, 0)
        body      == slice(text, bestStart, bestStart + maxLength)
        pre       == IF bestStart > 0 THEN Ellipsis \o body ELSE body
        post      == IF bestStart + maxLength < Len(text) THEN pre \o Ellipsis ELSE pre
    IN  trim(post)

\* ------------------------------------------------------------------------
\* The index: shard files as the builder writes them (spec.md section 6)
\* ------------------------------------------------------------------------
TokAI == <<"a", "i">>

TokX == <<"x">>

TokK12 == <<"K1", "K2">>

TokK34 == <<"K3", "K4">>

TextAI == <<"A", "I">>

TextAIK12 == <<"A", "I", " ", "K1", "K2">>

TextAIAIK12 == <<"A", "I", " ", "a", "i", "-", "K1", "K2">>

TextK34 == <<"K3", "K4">>

TextX == <<"x">>

TextAIX == <<"A", "I", " ", "x">>

ShardAvgLength(i) == FInt(4)

ShardK1(i) == Frac(3, 2)

ShardB(i) == Frac(3, 4)

MkChunk(i, j, title, text, date, agency, meeting, cc) ==
    [chunk_id |-> <<i, j>>, doc_id |-> <<"doc", i>>, text |-> text, full_text |-> text,
     tokens |-> tokenizePlain(text), meeting |-> meeting, agency |-> agency,
     title |-> title, date |-> date, url |-> <<"url", i, j>>,
     page_from |-> j, page_to |-> j + 1, char_count |-> cc,
     avg_length |-> ShardAvgLength(i), k1 |-> ShardK1(i), b |-> ShardB(i)]

ShardChunks(i) ==
    IF i = 1 THEN
        << MkChunk(1, 1, TextK34,   TextAI,      DateStr(4), "AG1", "M1", 2),
           MkChunk(1, 2, TextAIK12, TextAIAIK12, DateStr(3), "AG2", "M1", 4),
           MkChunk(1, 3, TextAI,    TextK34,     DateStr(2), "AG1", "M2", 6) >>
    ELSE IF i = 2 THEN
        << MkChunk(2, 1, TextAIX, TextX,   DateUndefined, "AG1", "M1", 4),
           MkChunk(2, 2, TextK34, TextAIX, DateStr(0),    "AG1", "M1", 4),
           MkChunk(2, 3, TextX,   TextAI,  DateNull,      "AG2", "M2", 4),
           MkChunk(2, 4, TextK34, TextK34, DateStr(3),    "AG1", "M1", 4),
           MkChunk(2, 5, TextAI,  TextAI,  DateStr(5),    "AG1", "M1", 4) >>
    ELSE
        << MkChunk(i, 1, TextAI, TextAIK12, DateStr(IF i = 3 THEN 1 ELSE 3),
                   "AG1", "M1", 4) >>

ShardIdf(i) ==
    IF i = 2 THEN (TokAI :> FInt(1)) @@ (TokX :> FInt(-2)) @@ (TokK34 :> FInt(0))
    ELSE (TokAI :> Frac(1, 2)) @@ (TokK12 :> Frac(3, 2))

\* the content of shard file i when it can be read and parsed
ShardData(i) ==
    [shard_id |-> i, chunks |-> ShardChunks(i), idf |-> ShardIdf(i),
     avg_length |-> ShardAvgLength(i), k1 |-> ShardK1(i), b |-> ShardB(i)]

\* what reading a file gives: its content, a non-OK status (file missing),
\* a thrown network / read error, or a body that is not JSON
FileStates == {"ok", "notok", "throw", "badjson"}

\* ------------------------------------------------------------------------
\* State
\* ------------------------------------------------------------------------
VARIABLES
    rev,          \* the revision of the handler that is deployed
    manifestFile, \* state of /index-shards/_index.json
    shardFile,    \* shardFile[i]: state of the file of manifest entry i
    pc,           \* "idle", "manifest", "shards", "responded"
    req,          \* the raw parameters of the request being handled
    fetches,      \* the reads started for this request: 0 = manifest, i = shard i
    shardResult,  \* per attempted entry: "pending", "loaded", "null", "rejected",
                  \* "malformed"
    response      \* the response sent

VARIABLES
    parked,       \* the other invocation of GET in flight, waiting at an await
    tokText,      \* tokenize called on its own: the text passed
    tokOut,       \* ... and the array it returned
    scoreIn,      \* calculateBM25 / titleBoost called on their own: the arguments
    scoreOut,     \* ... and the numbers they returned
    sumPc,        \* POST /api/summarize: "idle", "calling", "responded"
    sumBody,      \* the body of the summarize request
    upstream,     \* how the external summarizer answers this call
    sumResponse   \* the response of the summarize endpoint

VARIABLES
    snipIn,       \* generateSnippet called on its own: the arguments
    snipOut       \* ... the window it chose and the snippet it returned

\* the dashboard component: its React state, and what is pending
VARIABLES
    dash,          \* which copy of the component is mounted
    uiQuery,       \* query
    searching,     \* searching (loading in GovITDashboard)
    summarizing,   \* summarizing (summaryLoading in GovITDashboard)
    hasSearched,   \* hasSearched
    searchResults, \* searchResults
    summary,       \* summary
    error,         \* error
    selectedDocs,  \* selectedDocs (GovITDashboard)
    calls,         \* the fetches in flight, each with what its closure holds
    timers,        \* the pending setTimeout callbacks, each with its closure
    issued,        \* number of searches and of summaries started so far
    fired,         \* what the timer callbacks that have run did
    settled        \* last: the run of a handler that ended last (a fetch that
                   \* settled, or handleSummarize finding nothing to send);
                   \* search: how the newest of the settled searches ended

searchVars ==
    <<rev, manifestFile, shardFile, pc, req, fetches, shardResult, response>>

tokVars == <<tokText, tokOut>>

scoreVars == <<scoreIn, scoreOut>>

sumVars == <<sumPc, sumBody, upstream, sumResponse>>

snipVars == <<snipIn, snipOut>>

uiVars ==
    <<dash, uiQuery, searching, summarizing, hasSearched, searchResults,
      summary, error, selectedDocs, calls, timers, issued, fired,
      settled>>

vars == <<searchVars, parked, tokVars, scoreVars, sumVars, snipVars, uiVars>>

\* the value of a variable of a function or endpoint that has not been called
NotCalled == [called |-> FALSE]

Revisions == {"edge", "fs", "fetch"}

\* const shardsToLoad = shardIndex.slice(0, 10)
ShardCap == 10

QueryParams ==
    {Absent, Given(<<" ">>), Given(<<"-">>), Given(TextX), Given(TextAI),
     Given(TextAIK12)}

DateParams == {Absent, Given(<<3>>)}

AgencyParams == {Absent, Given(<<"AG1", "">>), Given(<<"AG2", "AG1">>)}

MeetingParams == {Absent, Given(<<"M1">>)}

SizeParams ==
    {Absent, Given(<<"text">>)} \cup {Given(<<"int", n>>) : n \in (-1)..MaxSize}

AllRequests ==
    [q : QueryParams, from : DateParams, to : DateParams,
     agencies : AgencyParams, meetings : MeetingParams, size : SizeParams]

Unfiltered(p) ==
    ~p.from.has /\ ~p.to.has /\ ~p.agencies.has /\ ~p.meetings.has

\* the requests sent: every query without filter and size; the query "AI"
\* with every combination of filters, and with every size and combination of
\* agency and meeting filters; the two-term query with every combination of
\* filters
Requests ==
    {p \in AllRequests :
        \/ p.q = Given(TextAI) /\ (~p.size.has \/ (~p.from.has /\ ~p.to.has))
        \/ Unfiltered(p) /\ ~p.size.has
        \/ p.q = Given(TextAIK12) /\ ~p.size.has}

NoRequest ==
    [q |-> Absent, from |-> Absent, to |-> Absent, agencies |-> Absent,
     meetings |-> Absent, size |-> Absent]

NoResponse == [status |-> 0, body |-> [none |-> TRUE]]

\* ------------------------------------------------------------------------
\* Filtering, scoring, ranking (the loop over shards and chunks)
\* ------------------------------------------------------------------------
\* TRUE when the date filter skips the chunk
DateSkipsEdge(chunk, from, to) ==
    Truthy(chunk.date) /\ (JsLt(chunk.date, from) \/ JsGt(chunk.date, to))

DateSkipsPlain(chunk, from, to) ==
    JsLt(chunk.date, from) \/ JsGt(chunk.date, to)

DateSkips(r, chunk, from, to) ==
    IF r = "edge" THEN DateSkipsEdge(chunk, from, to)
    ELSE DateSkipsPlain(chunk, from, to)

\* mutant: the list excludes instead of selecting
AgencySkipsInverted(chunk, agencies) ==
    Len(agencies) > 0 /\ includes(agencies, chunk.agency)

AgencySkips(chunk, agencies) ==
    Len(agencies) > 0 /\ ~includes(agencies, chunk.agency)

\* mutant: no meeting filter
MeetingSkipsNever(chunk, meetings) == FALSE

MeetingSkips(chunk, meetings) ==
    Len(meetings) > 0 /\ ~includes(meetings, chunk.meeting)

\* mutant: the title boost is not added
totalScoreNoBoost(r, queryTokens, chunk, shard) ==
    calculateBM25(r, queryTokens, chunk, shard)

totalScore(r, queryTokens, chunk, shard) ==
    FAdd(calculateBM25(r, queryTokens, chunk, shard),
         titleBoost(r, queryTokens, chunk.title))

RECURSIVE ScanChunks(_, _, _, _, _, _, _, _)
ScanChunks(r, chunks, shard, queryTokens, from, to, agencies, meetings) ==
    IF chunks = <<>> THEN <<>>
    ELSE LET chunk == Head(chunks)
             rest  == ScanChunks(r, Tail(chunks), shard, queryTokens,
                                 from, to, agencies, meetings)
         IN  IF DateSkips(r, chunk, from, to) THEN rest
             ELSE IF AgencySkips(chunk, agencies) THEN rest
             ELSE IF MeetingSkips(chunk, meetings) THEN rest
             ELSE LET score == totalScore(r, queryTokens, chunk, shard)
                  IN  IF FPos(score)
                      THEN << [chunk |-> chunk, score |-> score,
                               snippet |-> generateSnippet(chunk.text, queryTokens,
                                                           SnippetMaxLength)] >>
                           \o rest
                      ELSE rest

RECURSIVE ScanShards(_, _, _, _, _, _, _)
ScanShards(r, shards, queryTokens, from, to, agencies, meetings) ==
    IF shards = <<>> THEN <<>>
    ELSE ScanChunks(r, Head(shards).chunks, Head(shards), queryTokens,
                    from, to, agencies, meetings)
         \o ScanShards(r, Tail(shards), queryTokens, from, to, agencies, meetings)

\* results.sort((a, b) => b.score - a.score): stable, descending
RECURSIVE InsertByScore(_, _)
InsertByScore(sorted, x) ==
    IF sorted = <<>> THEN <<x>>
    ELSE IF FLt(Head(sorted).score, x.score) THEN <<x>> \o sorted
    ELSE <<Head(sorted)>> \o InsertByScore(Tail(sorted), x)

\* mutant: the results are not sorted
SortByScoreNone(results) == results

RECURSIVE SortByScore(_)
SortByScore(results) ==
    IF results = <<>> THEN <<>>
    ELSE InsertByScore(SortByScore(SubSeq(results, 1, Len(results) - 1)),
                       results[Len(results)])

\* results.slice(0, size): NaN counts as 0, a negative end counts from the end
SliceEnd(size, len) ==
    IF size.nan THEN 0
    ELSE IF size.v < 0 THEN (IF len + size.v < 0 THEN 0 ELSE len + size.v)
    ELSE IF size.v > len THEN len ELSE size.v

SliceTop(results, size) == SubSeq(results, 1, SliceEnd(size, Len(results)))

ToHit(x) ==
    [doc_id |-> x.chunk.doc_id, chunk_id |-> x.chunk.chunk_id,
     meeting |-> x.chunk.meeting, agency |-> x.chunk.agency,
     date |-> x.chunk.date, title |-> x.chunk.title, snippet |-> x.snippet,
     score |-> Round1(x.score), url |-> x.chunk.url,
     page_from |-> x.chunk.page_from, page_to |-> x.chunk.page_to]

\* the candidate list of a request over the loaded shards, sorted
Candidates(r, shards, p) ==
    SortByScore(ScanShards(r, shards, tokenize(r, ParseQuery(p.q)),
                           ParseFrom(p.from), ParseTo(p.to),
                           ParseList(p.agencies), ParseList(p.meetings)))

TopResults(results, p) ==
    LET top == SliceTop(results, ParseSize(p.size))
    IN  [k \in 1..Len(top) |-> ToHit(top[k])]

\* ------------------------------------------------------------------------
\* Responses
\* ------------------------------------------------------------------------
EmptyResponse == [status |-> 200, body |-> [hits |-> <<>>, count |-> 0]]

\* mutant: the manifest error is answered like an empty result
IndexNotFoundNoError(r) ==
    [status |-> 404, body |-> [hits |-> <<>>, count |-> 0]]

IndexNotFound(r) ==
    IF r = "fetch"
    THEN [status |-> 200,
          body |-> [error |-> "Index not found", hits |-> <<>>, count |-> 0]]
    ELSE [status |-> 404,
          body |-> [error |-> "Index not found", message |-> "index file not found",
                    hits |-> <<>>, count |-> 0]]

NoShardsLoaded(r) ==
    IF r = "fetch"
    THEN [status |-> 200,
          body |-> [error |-> "No shards loaded", hits |-> <<>>, count |-> 0]]
    ELSE [status |-> 404,
          body |-> [error |-> "No shards loaded", message |-> "shard files not found",
                    hits |-> <<>>, count |-> 0]]

\* the outer catch
\* mutant: the catch block answers without a status
SearchFailedNoStatus(msg) ==
    [status |-> 200,
     body |-> [error |-> "Search failed", message |-> msg, hits |-> <<>>, count |-> 0]]

SearchFailed(msg) ==
    [status |-> 500,
     body |-> [error |-> "Search failed", message |-> msg, hits |-> <<>>, count |-> 0]]

SearchResponse(r, shards, p) ==
    LET results == Candidates(r, shards, p)
    IN  [status |-> 200,
         body |-> [hits |-> TopResults(results, p), count |-> Len(results),
                   query |-> ParseQuery(p.q), tokens |-> tokenize(r, ParseQuery(p.q))]]

\* ------------------------------------------------------------------------
\* The handler
\* ------------------------------------------------------------------------
Manifest == [k \in 1..Len(shardFile) |-> k]

\* mutant: the last ten entries instead of the first ten
ShardsToLoadLast(r, shardIndex) ==
    IF r = "edge"
    THEN SubSeq(shardIndex,
                IF Len(shardIndex) > ShardCap THEN Len(shardIndex) - ShardCap + 1
                ELSE 1,
                Len(shardIndex))
    ELSE shardIndex

ShardsToLoad(r, shardIndex) ==
    IF r = "edge"
    THEN SubSeq(shardIndex, 1, IF Len(shardIndex) > ShardCap THEN ShardCap
                               ELSE Len(shardIndex))
    ELSE shardIndex

\* shardResults.filter(s => s !== null), in manifest order
RECURSIVE LoadedShards(_, _)
LoadedShards(results, k) ==
    IF k > Len(results) THEN <<>>
    ELSE (IF results[k] = "loaded" THEN <<ShardData(k)>> ELSE <<>>)
         \o LoadedShards(results, k + 1)

\* no invocation of GET is in flight
IdleInvocation ==
    [pc |-> "idle", req |-> NoRequest, fetches |-> <<>>, shardResult |-> <<>>,
     response |-> NoResponse]

HandlerIdle ==
    /\ pc = "idle"
    /\ req = NoRequest
    /\ fetches = <<>>
    /\ shardResult = <<>>
    /\ response = NoResponse
    /\ parked = IdleInvocation

TokenizeIdle == tokText = <<>> /\ tokOut = NotCalled

ScoreIdle == scoreIn = NotCalled /\ scoreOut = NotCalled

SummarizeIdle ==
    /\ sumPc = "idle"
    /\ sumBody = NotCalled
    /\ upstream = NotCalled
    /\ sumResponse = NoResponse

SnippetIdle == snipIn = NotCalled /\ snipOut = NotCalled

\* no fetch has settled yet
NoEvent == [kind |-> "none", id |-> 0, outcome |-> "none"]

\* useState(...): the state of the component when it is mounted
Mounted ==
    /\ uiQuery = <<>>
    /\ searching = FALSE
    /\ summarizing = FALSE
    /\ hasSearched = FALSE
    /\ searchResults = <<>>
    /\ summary = NotCalled
    /\ error = "null"
    /\ selectedDocs = {}
    /\ calls = {}
    /\ timers = {}
    /\ issued = [search |-> 0, summarize |-> 0]
    /\ fired = <<>>
    /\ settled = [last   |-> NoEvent,
                  search |-> [id |-> 0, q |-> <<>>, outcome |-> "none"]]

DashboardIdle == dash = "page1" /\ Mounted

Init ==
    /\ rev \in Revisions
    /\ manifestFile \in FileStates
    /\ shardFile \in UNION {[1..n -> FileStates] : n \in 0..MaxManifest}
    /\ (manifestFile # "ok" => shardFile = <<>>)
    /\ HandlerIdle
    /\ TokenizeIdle
    /\ ScoreIdle
    /\ SummarizeIdle
    /\ SnippetIdle
    /\ DashboardIdle

\* mutant: only the blank query short-circuits
ShortCircuitsBlankOnly(r, query) == trim(query) = <<>>

\* if (!query.trim()) return ...; if (queryTokens.length === 0) return ...
ShortCircuits(r, query) == trim(query) = <<>> \/ tokenize(r, query) = <<>>

\* GET, up to the first await: parameters, the two short circuits, and the
\* start of the manifest read
Receive(p) ==
    /\ pc = "idle"
    /\ req' = p
    /\ shardResult' = <<>>
    /\ IF ShortCircuits(rev, ParseQuery(p.q))
       THEN /\ response' = EmptyResponse
            /\ fetches' = <<>>
            /\ pc' = "responded"
       ELSE /\ response' = NoResponse
            /\ fetches' = <<0>>
            /\ pc' = "manifest"
    /\ UNCHANGED <<rev, manifestFile, shardFile>>
    /\ UNCHANGED <<parked, tokVars, scoreVars, sumVars>>
    /\ UNCHANGED <<snipVars, uiVars>>

\* the manifest read settles; on success every shard read is started
ManifestSettle ==
    /\ pc = "manifest"
    /\ IF manifestFile = "ok"
       THEN LET shardsToLoad == ShardsToLoad(rev, Manifest)
            IN  /\ fetches' = fetches \o shardsToLoad
                /\ shardResult' = [k \in 1..Len(shardsToLoad) |-> "pending"]
                /\ pc' = "shards"
                /\ UNCHANGED response
       ELSE /\ response' = IF \/ manifestFile = "malformed"
                              \/ rev = "fetch" /\ manifestFile # "notok"
                           THEN SearchFailed(manifestFile)
                           ELSE IndexNotFound(rev)
            /\ pc' = "responded"
            /\ UNCHANGED <<fetches, shardResult>>
    /\ UNCHANGED <<rev, manifestFile, shardFile, req>>
    /\ UNCHANGED <<parked, tokVars, scoreVars, sumVars>>
    /\ UNCHANGED <<snipVars, uiVars>>

\* what the promise of one shard read settles to: "malformed" is a file that
\* parses as JSON but is no shard (no chunks to iterate)
ShardOutcome(r, file) ==
    IF file = "ok" THEN "loaded"
    ELSE IF file = "malformed" THEN "malformed"
    ELSE IF r = "fetch" /\ file # "notok" THEN "rejected"
    ELSE "null"

\* one shard read settles; a rejected promise rejects Promise.all at once
ShardSettle(i) ==
    /\ pc \in {"shards", "responded"}
    /\ i \in DOMAIN shardResult
    /\ shardResult[i] = "pending"
    /\ shardResult' = [shardResult EXCEPT ![i] = ShardOutcome(rev, shardFile[i])]
    /\ IF pc = "shards" /\ shardResult'[i] = "rejected"
       THEN /\ response' = SearchFailed(shardFile[i])
            /\ pc' = "responded"
       ELSE UNCHANGED <<response, pc>>
    /\ UNCHANGED <<rev, manifestFile, shardFile, req, fetches>>
    /\ UNCHANGED <<parked, tokVars, scoreVars, sumVars>>
    /\ UNCHANGED <<snipVars, uiVars>>

\* the values a shard promise resolves to (anything but pending or rejected)
Resolved == {"loaded", "null", "malformed"}

\* mutant: the shard results are kept in a variable of the module, which the
\* other invocation in flight overwrites
RankShared ==
    /\ pc = "shards"
    /\ \A i \in DOMAIN shardResult : shardResult[i] \in Resolved
    /\ LET kept   == IF parked.pc = "shards" THEN parked.shardResult
                     ELSE shardResult
           shards == LoadedShards(kept, 1)
       IN  response' = IF \A i \in DOMAIN kept : kept[i] = "null"
                       THEN NoShardsLoaded(rev)
                       ELSE IF \E i \in DOMAIN kept : kept[i] = "malformed"
                       THEN SearchFailed("malformed")
                       ELSE SearchResponse(rev, shards, req)
    /\ pc' = "responded"
    /\ UNCHANGED <<rev, manifestFile, shardFile, req, fetches, shardResult>>
    /\ UNCHANGED <<parked, tokVars, scoreVars, sumVars>>
    /\ UNCHANGED <<snipVars, uiVars>>

\* Promise.all resolved: filter, score, sort, truncate, respond
Rank ==
    /\ pc = "shards"
    /\ \A i \in DOMAIN shardResult : shardResult[i] \in Resolved
    /\ LET shards == LoadedShards(shardResult, 1)
       IN  response' = IF \A i \in DOMAIN shardResult : shardResult[i] = "null"
                       THEN NoShardsLoaded(rev)
                       ELSE IF \E i \in DOMAIN shardResult :
                                   shardResult[i] = "malformed"
                       THEN SearchFailed("malformed")
                       ELSE SearchResponse(rev, shards, req)
    /\ pc' = "responded"
    /\ UNCHANGED <<rev, manifestFile, shardFile, req, fetches, shardResult>>
    /\ UNCHANGED <<parked, tokVars, scoreVars, sumVars>>
    /\ UNCHANGED <<snipVars, uiVars>>

\* the response has been sent and the invocation ends: nothing of it is kept
Done ==
    /\ pc = "responded"
    /\ pc' = "idle"
    /\ req' = NoRequest
    /\ fetches' = <<>>
    /\ shardResult' = <<>>
    /\ response' = NoResponse
    /\ UNCHANGED <<rev, manifestFile, shardFile>>
    /\ UNCHANGED <<parked, tokVars, scoreVars, sumVars>>
    /\ UNCHANGED <<snipVars, uiVars>>

Next ==
    \/ \E p \in Requests : Receive(p)
    \/ ManifestSettle
    \/ \E i \in 1..(MaxManifest + 1) : ShardSettle(i)
    \/ Rank
    \/ Done

Spec == Init /\ [][Next]_vars

\* ------------------------------------------------------------------------
\* Notions used by the properties
\* ------------------------------------------------------------------------
Responded == pc = "responded"

HasError == "error" \in DOMAIN response.body

\* the handler got past Promise.all with at least one shard and ranked
ReachedRanking ==
    /\ pc = "responded"
    /\ shardResult # <<>>
    /\ \A i \in DOMAIN shardResult : shardResult[i] \in {"loaded", "null"}
    /\ \E i \in DOMAIN shardResult : shardResult[i] = "loaded"

\* the q parameter is missing, empty or whitespace-only
BlankQuery(p) == ~p.q.has \/ \A k \in 1..Len(p.q.v) : p.q.v[k] \in SpaceChars

\* C1: a request whose q is missing, empty or whitespace-only, or whose query
\* has no token, is answered with exactly {hits: [], count: 0}, status 200
\* and no error field, and no read of the manifest or of a shard is started.
C1_EmptyQueryShortCircuit ==
    (pc # "idle" /\ (BlankQuery(req) \/ tokenize(rev, ParseQuery(req.q)) = <<>>))
    => /\ pc = "responded"
       /\ response.status = 200
       /\ DOMAIN response.body = {"hits", "count"}
       /\ response.body.hits = <<>>
       /\ response.body.count = 0
       /\ fetches = <<>>

C1_Witness ==
    /\ pc = "responded"
    /\ ~BlankQuery(req)
    /\ tokenize(rev, ParseQuery(req.q)) = <<>>
    /\ response.body.count = 0

\* C2 (as claimed): when a shard read throws, is not OK or does not parse and
\* another shard loads, the request ends with the ranked result over the
\* shards that can be read, never with an error response.
C2_ShardFailureDropped ==
    (/\ pc = "responded"
     /\ shardResult # <<>>
     /\ \E i \in DOMAIN shardResult : shardFile[i] # "ok"
     /\ \E i \in DOMAIN shardResult : shardFile[i] = "ok")
    => /\ ~HasError
       /\ response.status = 200
       /\ response =
            SearchResponse(rev,
                           LoadedShards([k \in DOMAIN shardResult |->
                                            IF shardFile[k] = "ok" THEN "loaded"
                                            ELSE "null"], 1),
                           req)

\* C3 (as claimed): manifest read, every attempted shard failing: the
\* response has hits = [], count = 0, error 'No shards loaded', status 404.
C3_NoShardsIs404 ==
    (/\ pc = "responded"
     /\ fetches # <<>>
     /\ manifestFile = "ok"
     /\ shardFile # <<>>
     /\ \A i \in DOMAIN shardFile : shardFile[i] # "ok")
    => /\ response.body.hits = <<>>
       /\ response.body.count = 0
       /\ HasError
       /\ response.body.error = "No shards loaded"
       /\ response.status = 404

\* C4: when the manifest cannot be fetched, is not OK or does not parse, the
\* response has an error field, hits = [] and count = 0 and no shard read is
\* started; a response ranked from loaded shards never has an error field.
C4_ManifestErrorResponse ==
    /\ (pc = "responded" /\ fetches # <<>> /\ manifestFile # "ok")
       => /\ HasError
          /\ response.body.hits = <<>>
          /\ response.body.count = 0
          /\ fetches = <<0>>
          /\ shardResult = <<>>
    /\ ReachedRanking => ~HasError

C4_Witness ==
    /\ pc = "responded"
    /\ manifestFile = "badjson"
    /\ fetches = <<0>>
    /\ HasError

\* the three filters as the claim words them, on a hit or a chunk
DateAbsent(x) == x.date.k \in {"undefined", "null"} \/ x.date = DateStr(0)

InDateRange(x, p) ==
    /\ x.date.k = "str"
    /\ ParseFrom(p.from).r <= x.date.r
    /\ x.date.r <= ParseTo(p.to).r

NameSet(list) == {list[k] : k \in 1..Len(list)}

SatisfiesFilters(x, p) ==
    /\ DateAbsent(x) \/ InDateRange(x, p)
    /\ ParseList(p.agencies) = <<>> \/ x.agency \in NameSet(ParseList(p.agencies))
    /\ ParseList(p.meetings) = <<>> \/ x.meeting \in NameSet(ParseList(p.meetings))

\* the chunks of the loaded shards, as <<shard, position>>
LoadedChunkIds ==
    UNION {{<<i, j>> : j \in DOMAIN ShardChunks(i)} :
              i \in {k \in DOMAIN shardResult : shardResult[k] = "loaded"}}

ChunkAt(id) == ShardChunks(id[1])[id[2]]

\* C5: every hit satisfies the date filter (date absent or from <= date <= to),
\* the agency filter and the meeting filter at once, and count counts no
\* chunk that fails one of them.
C5_HitsSatisfyAllFilters ==
    ReachedRanking
    => /\ \A k \in 1..Len(response.body.hits) :
             SatisfiesFilters(response.body.hits[k], req)
       /\ response.body.count
            <= Cardinality({id \in LoadedChunkIds : SatisfiesFilters(ChunkAt(id), req)})

C5_Witness ==
    /\ ReachedRanking
    /\ Len(response.body.hits) >= 1
    /\ ParseList(req.agencies) # <<>>
    /\ ParseList(req.meetings) # <<>>
    /\ req.from.has
    /\ \E id \in LoadedChunkIds : ~SatisfiesFilters(ChunkAt(id), req)

\* the request's tokens, the shards it loaded, and scores of loaded chunks
QueryTokens == tokenize(rev, ParseQuery(req.q))

Loaded == LoadedShards(shardResult, 1)

ParsedSize == ParseSize(req.size)

HitIds == {response.body.hits[k].chunk_id : k \in 1..Len(response.body.hits)}

\* BM25 + title boost of a loaded chunk, before rounding
UnroundedScore(id) ==
    FAdd(calculateBM25(rev, QueryTokens, ChunkAt(id), ShardData(id[1])),
         titleBoost(rev, QueryTokens, ChunkAt(id).title))

\* requests that differ from p in exactly one filter, which is relaxed
WideDateParams == {Absent, Given(<<1>>), Given(<<3>>), Given(<<5>>)}

WideAgencyParams ==
    {Absent, Given(<<"AG1">>), Given(<<"AG2">>), Given(<<"AG1", "AG2">>)}

WideMeetingParams ==
    {Absent, Given(<<"M1">>), Given(<<"M2">>), Given(<<"M2", "M1">>)}

ListRelaxed(strict, relaxed) ==
    /\ strict # <<>>
    /\ NameSet(strict) # NameSet(relaxed)
    /\ relaxed = <<>> \/ NameSet(strict) \subseteq NameSet(relaxed)

Relaxations(p) ==
    {[p EXCEPT !.from = f, !.to = t] : <<f, t>> \in
        {w \in WideDateParams \X WideDateParams :
            /\ ParseFrom(w[1]).r <= ParseFrom(p.from).r
            /\ ParseTo(w[2]).r >= ParseTo(p.to).r
            /\ <<ParseFrom(w[1]), ParseTo(w[2])>> # <<ParseFrom(p.from), ParseTo(p.to)>>}}
    \cup {[p EXCEPT !.agencies = a] : a \in
            {w \in WideAgencyParams : ListRelaxed(ParseList(p.agencies), ParseList(w))}}
    \cup {[p EXCEPT !.meetings = m] : m \in
            {w \in WideMeetingParams : ListRelaxed(ParseList(p.meetings), ParseList(w))}}

\* C6 (as claimed): with index, query text and size fixed, every hit of a
\* request is also in the hits of the request with one filter relaxed.
C6_RelaxKeepsHits ==
    ReachedRanking
    => \A p2 \in Relaxations(req) :
          LET top2 == TopResults(Candidates(rev, Loaded, p2), p2)
          IN  \A k \in 1..Len(response.body.hits) :
                 \E m \in 1..Len(top2) : top2[m] = response.body.hits[k]

\* C6 (amended): every hit of a request is a counted match of the request
\* with one filter relaxed, and is in its hits whenever the relaxed request's
\* count does not exceed size.
C6_RelaxKeepsCandidates ==
    ReachedRanking
    => \A p2 \in Relaxations(req) :
          LET cand2 == Candidates(rev, Loaded, p2)
              top2  == TopResults(cand2, p2)
          IN  \A k \in 1..Len(response.body.hits) :
                 /\ \E m \in 1..Len(cand2) : ToHit(cand2[m]) = response.body.hits[k]
                 /\ (~ParsedSize.nan /\ ParsedSize.v >= Len(cand2))
                    => \E m \in 1..Len(top2) : top2[m] = response.body.hits[k]

C6_Witness ==
    /\ ReachedRanking
    /\ Len(response.body.hits) >= 1
    /\ \E p2 \in Relaxations(req) :
          /\ Len(Candidates(rev, Loaded, p2)) > response.body.count
          /\ ParsedSize.v >= Len(Candidates(rev, Loaded, p2))

\* C7 (as claimed): in every revision a chunk with no date (missing, null or
\* empty string) is never dropped by the date filter: when it passes the
\* agency and meeting filters and scores above 0, it is a hit of any
\* response that is not truncated.
C7_NoDateNeverDateFiltered ==
    (ReachedRanking /\ ~ParsedSize.nan /\ ParsedSize.v >= response.body.count)
    => \A id \in LoadedChunkIds :
          (/\ DateAbsent(ChunkAt(id))
           /\ ~AgencySkips(ChunkAt(id), ParseList(req.agencies))
           /\ ~MeetingSkips(ChunkAt(id), ParseList(req.meetings))
           /\ FPos(UnroundedScore(id)))
          => id \in HitIds

Min(a, b) == IF a < b THEN a ELSE b

\* C8 (as claimed): for every request that reaches ranking,
\* len(hits) <= min(size, count) for the parsed size.  (A size that parses
\* to NaN gives no hits and is not held against the claim here.)
C8_SizeCap ==
    (ReachedRanking /\ ~ParsedSize.nan)
    => Len(response.body.hits) <= Min(ParsedSize.v, response.body.count)

\* C9: in route.ts the count of a ranked response is the number of chunks of
\* the loaded shards that pass all three filters and have BM25 + boost > 0;
\* it is the same for every size, and no hit has BM25 + boost <= 0.
C9_CountIsPositiveMatches ==
    (rev = "edge" /\ ReachedRanking)
    => /\ response.body.count =
            Cardinality({id \in LoadedChunkIds :
                            /\ SatisfiesFilters(ChunkAt(id), req)
                            /\ FPos(UnroundedScore(id))})
       /\ \A s \in SizeParams :
             SearchResponse(rev, Loaded, [req EXCEPT !.size = s]).body.count
                = response.body.count
       /\ \A id \in HitIds : FPos(UnroundedScore(id))

C9_Witness ==
    /\ rev = "edge"
    /\ ReachedRanking
    /\ response.body.count >= 2
    /\ Len(response.body.hits) < response.body.count
    /\ \E id \in LoadedChunkIds :
          SatisfiesFilters(ChunkAt(id), req) /\ ~FPos(UnroundedScore(id))

\* <<id, BM25 + boost>> of every loaded chunk
ScorePairs == {<<id, UnroundedScore(id)>> : id \in LoadedChunkIds}

\* the loaded chunks that no filter of the loop skips
UnskippedIds ==
    {id \in LoadedChunkIds :
        /\ ~DateSkips(rev, ChunkAt(id), ParseFrom(req.from), ParseTo(req.to))
        /\ ~AgencySkips(ChunkAt(id), ParseList(req.agencies))
        /\ ~MeetingSkips(ChunkAt(id), ParseList(req.meetings))}

\* the chunks the loop keeps: not skipped by a filter, score above 0
CandidateIds == {id \in UnskippedIds : FPos(UnroundedScore(id))}

\* C10: the hits are a prefix of the candidates in descending score order:
\* reported (rounded) and unrounded scores are non-increasing along hits,
\* and no candidate left out has an unrounded score above that of a hit.
C10_HitsAreTopPrefix ==
    ReachedRanking
    => LET hits      == response.body.hits
           pairs     == ScorePairs
           score(id) == (CHOOSE sp \in pairs : sp[1] = id)[2]
           cands     == {id \in UnskippedIds : FPos(score(id))}
           hitIds    == HitIds
       IN  /\ hitIds \subseteq cands
           /\ Cardinality(hitIds) = Len(hits)
           /\ \A k \in 1..(Len(hits) - 1) :
                 /\ ~FLt(hits[k].score, hits[k + 1].score)
                 /\ ~FLt(score(hits[k].chunk_id), score(hits[k + 1].chunk_id))
           /\ \A k \in 1..Len(hits) :
                 /\ hits[k].score = Round1(score(hits[k].chunk_id))
                 /\ \A id \in cands \ hitIds :
                       ~FLt(score(hits[k].chunk_id), score(id))

C10_Witness ==
    /\ ReachedRanking
    /\ Len(response.body.hits) >= 2
    /\ Len(response.body.hits) < response.body.count
    /\ FLt(response.body.hits[2].score, response.body.hits[1].score)
    /\ \E id \in CandidateIds \ HitIds :
          FLt(UnroundedScore(id), UnroundedScore(response.body.hits[2].chunk_id))
    /\ \E id \in CandidateIds :
          id[1] < response.body.hits[1].chunk_id[1]

\* ------------------------------------------------------------------------
\* calculateBM25 and titleBoost called on their own
\* ------------------------------------------------------------------------
\* largest number of occurrences of a term in a chunk text
MaxTf == 3

\* the term "AI" written n times, separated by blanks
RECURSIVE Repeat(_)
Repeat(n) ==
    IF n = 0 THEN <<>>
    ELSE IF n = 1 THEN TextAI
    ELSE Repeat(n - 1) \o <<" ">> \o <<"a", "i">>

ScoreQueries == {TextAI, Repeat(2), TextX, TextAIX, TextAIK12, TextK34}

ScoreTexts == {Repeat(n) : n \in 0..MaxTf} \cup {TextAIX, TextK34}

ScoreTitles == {TextAI, TextAIAIK12, TextK34}

ScoreIdfs == {ShardIdf(1), ShardIdf(2), <<>>}

ScoreK1s == {FInt(0), Frac(3, 2)}

ScoreBs == {FInt(0), Frac(3, 4), FInt(1)}

ScoreCharCounts == {2, 6}

\* a chunk with the given text, title and statistics, in a shard of two chunks
ScoreChunk(text, title, cc, k1, b) ==
    [MkChunk(1, 1, title, text, DateStr(3), "AG1", "M1", cc)
        EXCEPT !.k1 = k1, !.b = b]

ScoreShard(chunk, idf, k1, b) ==
    [shard_id |-> 1, chunks |-> <<chunk, ShardChunks(3)[1]>>, idf |-> idf,
     avg_length |-> ShardAvgLength(1), k1 |-> k1, b |-> b]

ScoreInputs ==
    {[called |-> TRUE, query |-> q,
      chunk |-> ScoreChunk(t, ti, cc, k1, b),
      shard |-> ScoreShard(ScoreChunk(t, ti, cc, k1, b), idf, k1, b)] :
        q \in ScoreQueries, t \in ScoreTexts, ti \in ScoreTitles,
        cc \in ScoreCharCounts, idf \in ScoreIdfs, k1 \in ScoreK1s,
        b \in ScoreBs}

InitScore ==
    /\ rev \in Revisions
    /\ manifestFile = "ok"
    /\ shardFile = <<>>
    /\ HandlerIdle
    /\ TokenizeIdle
    /\ SummarizeIdle
    /\ SnippetIdle
    /\ DashboardIdle
    /\ scoreIn \in ScoreInputs
    /\ scoreOut = NotCalled

\* queryTokens = tokenize(query); bm25Score = calculateBM25(...);
\* boost = titleBoost(...); totalScore = bm25Score + boost
ScoreCall ==
    /\ scoreIn.called
    /\ ~scoreOut.called
    /\ LET queryTokens == tokenize(rev, scoreIn.query)
       IN  scoreOut' =
               [called |-> TRUE,
                queryTokens |-> queryTokens,
                bm25Score |-> calculateBM25(rev, queryTokens, scoreIn.chunk,
                                            scoreIn.shard),
                boost |-> titleBoost(rev, queryTokens, scoreIn.chunk.title),
                totalScore |-> totalScore(rev, queryTokens, scoreIn.chunk,
                                          scoreIn.shard)]
    /\ UNCHANGED <<searchVars, parked, tokVars, sumVars, scoreIn>>
    /\ UNCHANGED <<snipVars, uiVars>>

NextScore == ScoreCall

SpecScore == InitScore /\ [][NextScore]_vars

\* C11: calculateBM25 never returns a negative score: a query token that is
\* not in the chunk, not in the idf table, or whose idf is <= 0 adds nothing,
\* in route.ts and in both revisions of part_000.
C11_ScoreNonNegative ==
    scoreOut.called => ~FLt(scoreOut.bm25Score, FInt(0))

\* the set of the elements of a sequence
Range(seq) == {seq[k] : k \in 1..Len(seq)}

\* C12: the title boost is 2.0 times the number of distinct query tokens that
\* are among the tokens of the title, also when the query repeats a term, and
\* the total score is the BM25 score plus that boost.
C12_TitleBoostCountsDistinct ==
    scoreOut.called =>
        /\ scoreOut.boost =
               FInt(2 * Cardinality(Range(scoreOut.queryTokens)
                                   \cap Range(tokenize(rev, scoreIn.chunk.title))))
        /\ scoreOut.totalScore = FAdd(scoreOut.bm25Score, scoreOut.boost)

\* ------------------------------------------------------------------------
\* tokenize called on its own
\* ------------------------------------------------------------------------
\* longest text passed to tokenize
MaxLen == 4

\* two characters of the Japanese class, a letter in both cases, a \w
\* character that is no letter, a blank and a punctuation mark
TokenizeChars == {"K1", "K2", "a", "A", "_", " ", "-"}

TokenizeTexts == UNION {[1..n -> TokenizeChars] : n \in 0..MaxLen}

InitTokenize ==
    /\ rev \in Revisions
    /\ manifestFile = "ok"
    /\ shardFile = <<>>
    /\ HandlerIdle
    /\ ScoreIdle
    /\ SummarizeIdle
    /\ SnippetIdle
    /\ DashboardIdle
    /\ tokText \in TokenizeTexts
    /\ tokOut = NotCalled

TokenizeCall ==
    /\ ~tokOut.called
    /\ tokOut' = [called |-> TRUE, tokens |-> tokenize(rev, tokText)]
    /\ UNCHANGED <<searchVars, parked, scoreVars, sumVars, tokText>>
    /\ UNCHANGED <<snipVars, uiVars>>

NextTokenize == TokenizeCall

SpecTokenize == InitTokenize /\ [][NextTokenize]_vars

\* C13: tokenize returns lowercased tokens only and returns no token twice,
\* in route.ts and in both tokenizers of part_000.
C13_TokensLowercaseAndDistinct ==
    tokOut.called =>
        /\ \A k \in DOMAIN tokOut.tokens :
               tokOut.tokens[k] = lowerText(tokOut.tokens[k])
        /\ \A j, k \in DOMAIN tokOut.tokens :
               j # k => tokOut.tokens[j] # tokOut.tokens[k]

\* the tokens of spec.md section 4.1: the lowercased matches of
\* [Japanese]{2,4} and of [A-Za-z0-9]+
PlainTokenSet(text) ==
    {lowerText(m) : m \in Range(MatchAll(text, CJKChars, 2, 4))}
    \cup {lowerText(m) : m \in Range(MatchAll(text, AlnumChars, 1, Len(text)))}

\* C14: tokenize of route.ts returns exactly the lowercased runs of 2-4
\* Japanese characters and the lowercased alphanumeric runs (those of length
\* 1 included), and no other token such as a bigram.
C14_EdgeTokensAreRuns ==
    (rev = "edge" /\ tokOut.called) =>
        Range(tokOut.tokens) = PlainTokenSet(tokText)

\* ------------------------------------------------------------------------
\* Two invocations of GET in flight
\* ------------------------------------------------------------------------
\* the requests of the two clients: a blank query, a one-term query and a
\* two-term query with an agency filter
InterleavedRequests ==
    {p \in Requests :
        \/ p.q = Given(<<" ">>)
        \/ p.q = Given(TextAI) /\ Unfiltered(p) /\ ~p.size.has
        \/ /\ p.q = Given(TextAIK12)
           /\ p.agencies = Given(<<"AG2", "AG1">>)
           /\ ~p.from.has /\ ~p.to.has /\ ~p.meetings.has}

\* the runtime resumes the other invocation: each invocation runs from one
\* await to the next, and its local variables are its own
Switch ==
    /\ pc # "idle" \/ parked.pc # "idle"
    /\ pc' = parked.pc
    /\ req' = parked.req
    /\ fetches' = parked.fetches
    /\ shardResult' = parked.shardResult
    /\ response' = parked.response
    /\ parked' = [pc |-> pc, req |-> req, fetches |-> fetches,
                  shardResult |-> shardResult, response |-> response]
    /\ UNCHANGED <<rev, manifestFile, shardFile, tokVars, scoreVars, sumVars>>
    /\ UNCHANGED <<snipVars, uiVars>>

NextInterleaved ==
    \/ \E p \in InterleavedRequests : Receive(p)
    \/ ManifestSettle
    \/ \E i \in 1..(MaxManifest + 1) : ShardSettle(i)
    \/ Rank
    \/ Done
    \/ Switch

SpecInterleaved == Init /\ [][NextInterleaved]_vars

\* the response of route.ts to request p over the index (mf, sf), computed
\* in one piece
Answer(r, mf, sf, p) ==
    IF ShortCircuits(r, ParseQuery(p.q)) THEN EmptyResponse
    ELSE IF mf # "ok" THEN IndexNotFound(r)
    ELSE LET shardsToLoad == ShardsToLoad(r, [k \in 1..Len(sf) |-> k])
             results == [k \in 1..Len(shardsToLoad) |-> ShardOutcome(r, sf[k])]
             shards  == LoadedShards(results, 1)
         IN  IF Len(shards) = 0 THEN NoShardsLoaded(r)
             ELSE SearchResponse(r, shards, p)

\* C15: handling a search request never changes the manifest or a shard
\* file, an invocation that has ended keeps nothing, and the response of
\* route.ts is determined by the request parameters and the index contents
\* alone, whatever was handled before it or is handled at the same time.
C15_StatelessQueryPath ==
    /\ [][manifestFile' = manifestFile /\ shardFile' = shardFile]_vars
    /\ [](pc = "idle" =>
             req = NoRequest /\ fetches = <<>> /\ shardResult = <<>>
             /\ response = NoResponse)
    /\ []((rev = "edge" /\ pc = "responded") =>
             response = Answer(rev, manifestFile, shardFile, req))

\* a ranked response is sent while another request, with other parameters,
\* waits for its shards
C15_Witness ==
    /\ rev = "edge"
    /\ ReachedRanking
    /\ response.body.count > 0
    /\ parked.pc = "shards"
    /\ parked.req # req
    /\ \E i \in DOMAIN parked.shardResult : parked.shardResult[i] # "pending"

\* ------------------------------------------------------------------------
\* POST /api/summarize
\* ------------------------------------------------------------------------
\* longest chunks list of a summarize request
MaxChunks == 2

SummarizeChunk(j) ==
    [meeting |-> "M1", agency |-> "AG1", date |-> DateStr(j), title |-> TextAI,
     snippet |-> TextAIK12, url |-> <<"url", 1, j>>, page_from |-> j,
     page_to |-> j + 1]

\* what request.json() gives: it throws, or a body whose chunks field is
\* missing, null or a list
SummarizeBodies ==
    {[called |-> TRUE, json |-> FALSE]}
    \cup {[called |-> TRUE, json |-> TRUE, query |-> TextAI, chunks |-> c] :
             c \in {[kind |-> k, list |-> <<>>] : k \in {"undefined", "null"}}
                   \cup {[kind |-> "list", list |-> l] :
                           l \in UNION {[1..n -> {SummarizeChunk(j) : j \in 1..2}] :
                                          n \in 0..MaxChunks}}}

\* the statuses of a reply that is not OK
UpstreamStatuses == {401, 429, 500, 529}

\* how the call of the external summarizer ends: fetch throws; a reply that
\* is not OK whose text can or cannot be read; an OK reply that is not JSON,
\* has no content, has a content block without text, or has a text
UpstreamOutcomes ==
    {[called |-> TRUE, kind |-> "throw"]}
    \cup {[called |-> TRUE, kind |-> "status", status |-> st, readable |-> rd] :
             st \in UpstreamStatuses, rd \in BOOLEAN}
    \cup {[called |-> TRUE, kind |-> "ok", content |-> c, usage |-> u] :
             c \in {"badjson", "missing", "empty", "notext", "text"},
             u \in BOOLEAN}

NoChunksProvided == [status |-> 400, body |-> [error |-> "No chunks provided"]]

\* mutant: the failure of the summarizer is answered with status 200
UpstreamFailedOk(status) ==
    [status |-> 200,
     body |-> [error |-> "Claude API request failed", details |-> "errorText"]]

\* { error: 'Claude API request failed', details: errorText }, status
UpstreamFailed(status) ==
    [status |-> status,
     body |-> [error |-> "Claude API request failed", details |-> "errorText"]]

\* the catch block
SummaryFailed(msg) ==
    [status |-> 500,
     body |-> [error |-> "Summary generation failed", message |-> msg]]

Source(chunk) ==
    [doc_url |-> chunk.url, meeting |-> chunk.meeting, date |-> chunk.date,
     pages |-> <<chunk.page_from, "-", chunk.page_to>>]

\* the response with the summary; JSON leaves out a field that is undefined
SummaryOk(chunks, u, now) ==
    LET rest == [sources |-> [k \in 1..Len(chunks) |-> Source(chunks[k])],
                 cache |-> [hit |-> FALSE, key |-> <<"claude_", now>>],
                 cost_estimate |->
                     [prompt_tokens |-> IF u.usage THEN 7 ELSE 0,
                      completion_tokens |-> IF u.usage THEN 3 ELSE 0]]
    IN  [status |-> 200,
         body |-> IF u.content = "text"
                  THEN rest @@ [summary |-> "summaryText"]
                  ELSE rest]

\* values of Date.now()
Clock == {1, 2}

InitSummarize ==
    /\ rev = "edge"
    /\ manifestFile = "ok"
    /\ shardFile = <<>>
    /\ HandlerIdle
    /\ TokenizeIdle
    /\ ScoreIdle
    /\ SummarizeIdle
    /\ SnippetIdle
    /\ DashboardIdle

\* POST up to the call of the summarizer: the body is parsed, chunks.length
\* is logged (a TypeError when chunks is missing or null), an empty list is
\* answered with 400
SummarizeReceive(body) ==
    /\ sumPc = "idle"
    /\ sumBody' = body
    /\ upstream' = NotCalled
    /\ IF ~body.json
       THEN sumResponse' = SummaryFailed("request.json") /\ sumPc' = "responded"
       ELSE IF body.chunks.kind \in {"undefined", "null"}
       THEN sumResponse' = SummaryFailed("chunks.length") /\ sumPc' = "responded"
       ELSE IF Len(body.chunks.list) = 0
       THEN sumResponse' = NoChunksProvided /\ sumPc' = "responded"
       ELSE sumResponse' = NoResponse /\ sumPc' = "calling"
    /\ UNCHANGED <<searchVars, parked, tokVars, scoreVars>>
    /\ UNCHANGED <<snipVars, uiVars>>

\* the call of the summarizer settles with outcome u
SummarizeSettle(u, now) ==
    /\ sumPc = "calling"
    /\ upstream' = u
    /\ sumResponse' =
           IF u.kind = "throw" THEN SummaryFailed("fetch")
           ELSE IF u.kind = "status"
           THEN (IF u.readable THEN UpstreamFailed(u.status)
                 ELSE SummaryFailed("response.text"))
           ELSE IF u.content = "badjson" THEN SummaryFailed("response.json")
           ELSE IF u.content \in {"missing", "empty"}
           THEN SummaryFailed("data.content[0].text")
           ELSE SummaryOk(sumBody.chunks.list, u, now)
    /\ sumPc' = "responded"
    /\ UNCHANGED <<searchVars, parked, tokVars, scoreVars, sumBody>>
    /\ UNCHANGED <<snipVars, uiVars>>

SummarizeDone ==
    /\ sumPc = "responded"
    /\ sumPc' = "idle"
    /\ sumBody' = NotCalled
    /\ upstream' = NotCalled
    /\ sumResponse' = NoResponse
    /\ UNCHANGED <<searchVars, parked, tokVars, scoreVars>>
    /\ UNCHANGED <<snipVars, uiVars>>

NextSummarize ==
    \/ \E body \in SummarizeBodies : SummarizeReceive(body)
    \/ \E u \in UpstreamOutcomes, now \in Clock : SummarizeSettle(u, now)
    \/ SummarizeDone

SpecSummarize == InitSummarize /\ [][NextSummarize]_vars

\* the reply of the summarizer could not be obtained or read
UpstreamUnreadable ==
    \/ upstream.kind = "throw"
    \/ upstream.kind = "status" /\ ~upstream.readable
    \/ upstream.kind = "ok" /\ upstream.content \in {"badjson", "missing", "empty"}

\* C16: a reply of the summarizer that is not OK is answered with the error
\* 'Claude API request failed' and the status of the reply; a call that throws
\* or a reply that cannot be read is answered with status 500 and the error
\* 'Summary generation failed'; neither response has a summary or a sources
\* field.
C16_SummarizerFailureSurfaced ==
    (sumPc = "responded" /\ upstream.called) =>
        /\ (upstream.kind = "status" /\ upstream.readable) =>
               /\ sumResponse.status = upstream.status
               /\ sumResponse.body.error = "Claude API request failed"
               /\ DOMAIN sumResponse.body \cap {"summary", "sources"} = {}
        /\ UpstreamUnreadable =>
               /\ sumResponse.status = 500
               /\ sumResponse.body.error = "Summary generation failed"
               /\ DOMAIN sumResponse.body \cap {"summary", "sources"} = {}

\* the summarizer answered 429 to a request with two chunks
C16_Witness ==
    /\ sumPc = "responded"
    /\ upstream.called
    /\ upstream.kind = "status"
    /\ upstream.readable
    /\ upstream.status = 429
    /\ Len(sumBody.chunks.list) = 2
    /\ sumResponse.status = 429

\* the title of the chunk holds a token of the query
TitleMatches(id) ==
    Range(QueryTokens) \cap Range(tokenize(rev, ChunkAt(id).title)) # {}

\* C17: a chunk of a loaded shard that passes the three filters and whose
\* title holds a query token is a candidate with score >= 2.0, whatever its
\* text (so it is a hit when the candidates are not truncated); a chunk
\* whose date is outside [from, to] is never returned, title match or not.
C17_TitleMatchIsCandidate ==
    (ReachedRanking /\ ~ParsedSize.nan /\ ParsedSize.v >= response.body.count)
    => /\ \A id \in UnskippedIds :
             TitleMatches(id) =>
                 \E k \in 1..Len(response.body.hits) :
                     /\ response.body.hits[k].chunk_id = id
                     /\ ~FLt(response.body.hits[k].score, FInt(2))
       /\ \A k \in 1..Len(response.body.hits) :
             LET hit == response.body.hits[k]
             IN  (hit.date.k = "str" /\ hit.date # DateStr(0))
                 => InDateRange(hit, req)

\* the chunk with one more occurrence of the token, char_count unchanged
WithOneMore(chunk, token) ==
    [chunk EXCEPT !.text = chunk.text \o <<" ">> \o token,
                  !.tokens = Append(chunk.tokens, token)]

\* C18: in calculateBM25 of route.ts and of the first part_000 revision,
\* with the query tokens, idf, avg_length, k1 >= 0, 0 <= b <= 1 and
\* char_count held fixed, one more occurrence of a query token in the chunk
\* never lowers the score.
C18_ScoreMonotoneInTf ==
    (scoreOut.called /\ rev \in {"edge", "fs"}) =>
        \A token \in Range(scoreOut.queryTokens) :
            ~FLt(calculateBM25(rev, scoreOut.queryTokens,
                               WithOneMore(scoreIn.chunk, token), scoreIn.shard),
                 scoreOut.bm25Score)

\* the token "ai" occurs twice in the chunk, and a third occurrence raises
\* the score
C18_Witness ==
    /\ scoreOut.called
    /\ rev = "fs"
    /\ termFreq(scoreIn.chunk.tokens, TokAI) = 2
    /\ scoreIn.chunk.k1 = Frac(3, 2)
    /\ FLt(scoreOut.bm25Score,
           calculateBM25(rev, scoreOut.queryTokens,
                         WithOneMore(scoreIn.chunk, TokAI), scoreIn.shard))

\* the attempted entries whose file can be read and parsed, in manifest order
RECURSIVE SucceededShards(_, _, _)
SucceededShards(sf, n, k) ==
    IF k > n THEN <<>>
    ELSE (IF sf[k] = "ok" THEN <<ShardData(k)>> ELSE <<>>)
         \o SucceededShards(sf, n, k + 1)

AllSettled == \A i \in DOMAIN shardResult : shardResult[i] # "pending"

\* C19: the shard reads are started together; in whatever order they settle,
\* the shards used are exactly the attempted entries whose read succeeded,
\* in manifest order; a failed read leaves the outcome of the other reads
\* as it is, and the handler scores only after every read has settled.
C19_LoadedShardsAreSucceeded ==
    LET attempted == Len(ShardsToLoad(rev, Manifest))
        succeeded == SucceededShards(shardFile, attempted, 1)
    IN  /\ pc = "shards" =>
               /\ fetches = <<0>> \o ShardsToLoad(rev, Manifest)
               /\ DOMAIN shardResult = 1..attempted
        /\ \A i \in DOMAIN shardResult :
               shardResult[i] = "loaded" <=>
                   (shardFile[i] = "ok" /\ shardResult[i] # "pending")
        /\ (pc = "responded" /\ "tokens" \in DOMAIN response.body) => AllSettled
        /\ (pc = "responded" /\ shardResult # <<>> /\ AllSettled) =>
               response = IF succeeded = <<>> THEN NoShardsLoaded(rev)
                          ELSE SearchResponse(rev, succeeded, req)

\* ------------------------------------------------------------------------
\* A manifest with more entries than route.ts loads
\* ------------------------------------------------------------------------
\* manifests of one entry and of one entry more than the cap; every file
\* readable, or the first or the last one missing
CapIndexes ==
    UNION {{[k \in 1..n |-> "ok"],
            [k \in 1..n |-> IF k = 1 THEN "notok" ELSE "ok"],
            [k \in 1..n |-> IF k = n THEN "notok" ELSE "ok"]} :
              n \in {1, ShardCap + 1}}

CapRequests ==
    {p \in Requests :
        /\ p.q \in {Given(TextAI), Given(TextAIK12)}
        /\ Unfiltered(p)
        /\ ~p.size.has}

InitCap ==
    /\ rev \in Revisions
    /\ manifestFile = "ok"
    /\ shardFile \in CapIndexes
    /\ HandlerIdle
    /\ TokenizeIdle
    /\ ScoreIdle
    /\ SummarizeIdle
    /\ SnippetIdle
    /\ DashboardIdle

NextCap ==
    \/ \E p \in CapRequests : Receive(p)
    \/ ManifestSettle
    \/ \E i \in 1..(ShardCap + 1) : ShardSettle(i)
    \/ Rank
    \/ Done

SpecCap == InitCap /\ [][NextCap]_vars

\* the shard reads started for the request
FetchedShards == IF fetches = <<>> THEN <<>> ELSE Tail(fetches)

\* C20: the shards read for a request are all manifest entries (part_000) or
\* the first 10 of them (route.ts), each read once at most, and a chunk of a
\* shard that was not read is neither a hit nor counted.
C20_OnlyFetchedShardsCount ==
    /\ pc \in {"shards", "responded"} /\ Len(fetches) > 1 =>
           /\ \A k \in DOMAIN FetchedShards : FetchedShards[k] = Manifest[k]
           /\ Len(FetchedShards) =
                  IF rev = "edge" THEN Min(ShardCap, Len(Manifest))
                  ELSE Len(Manifest)
           /\ \A j, k \in DOMAIN FetchedShards :
                  j # k => FetchedShards[j] # FetchedShards[k]
    /\ ReachedRanking =>
           /\ \A k \in DOMAIN response.body.hits :
                  response.body.hits[k].chunk_id[1] \in Range(FetchedShards)
           /\ response.body.count =
                  Cardinality({id \in CandidateIds : id[1] \in Range(FetchedShards)})

\* route.ts answers over a manifest of 11 readable shards: the chunk of the
\* eleventh matches the query like that of the tenth and is not among the
\* hits, which are all that is counted
C20_Witness ==
    /\ rev = "edge"
    /\ ReachedRanking
    /\ Len(Manifest) = ShardCap + 1
    /\ \A i \in DOMAIN shardFile : shardFile[i] = "ok"
    /\ \E k \in DOMAIN response.body.hits :
           response.body.hits[k].chunk_id = <<ShardCap, 1>>
    /\ FPos(totalScore(rev, QueryTokens, ShardChunks(ShardCap + 1)[1],
                       ShardData(ShardCap + 1)))
    /\ SatisfiesFilters(ShardChunks(ShardCap + 1)[1], req)
    /\ response.body.count = Len(response.body.hits)
    /\ \A k \in DOMAIN response.body.hits :
           response.body.hits[k].chunk_id[1] # ShardCap + 1

\* ------------------------------------------------------------------------
\* generateSnippet called on its own
\* ------------------------------------------------------------------------
\* the longest text is the window width plus this many strides, plus 1
MaxStrides == 5

\* lengths around every point where the number of scanned windows changes
SnippetLengths ==
    {0, 2} \cup {SnippetMaxLength + k * SnippetStride + d :
                    k \in 0..MaxStrides, d \in {0, 1}}

\* where a term starts in the text: at, just before and between the offsets
\* the loop scans, and near the end of the longest text
SnippetPositions ==
    {0, 49, 120, 198, 200, 240, 260, 330,
     SnippetMaxLength + MaxStrides * SnippetStride - 2}

\* a text of the given length: "AI" at offset p1 and, when p2 is an offset,
\* the term "K1K2" or again "AI" at p2, "-" elsewhere, and with blank ends
\* when asked
SnippetText(len, p1, p2, second, blankEnds) ==
    [k \in 1..len |->
        IF k - 1 = p1 THEN "A"
        ELSE IF k - 1 = p1 + 1 THEN "I"
        ELSE IF k - 1 = p2 THEN second[1]
        ELSE IF k - 1 = p2 + 1 THEN second[2]
        ELSE IF blankEnds /\ (k = 1 \/ k = len) THEN " "
        ELSE "-"]

\* offset -2 stands for "no such term in the text"
SnippetStarts(len) == {p \in SnippetPositions \cup {-2} : p + 2 <= len}

SnippetInputs ==
    UNION {{[called |-> TRUE,
             text |-> SnippetText(len, p1, p2, second, be),
             queryTokens |-> <<TokAI, TokK12>>] :
               p1 \in SnippetStarts(len), p2 \in SnippetStarts(len),
               second \in {TokK12, TextAI}, be \in BOOLEAN} :
              len \in SnippetLengths}

InitSnippet ==
    /\ rev = "edge"
    /\ manifestFile = "ok"
    /\ shardFile = <<>>
    /\ HandlerIdle
    /\ TokenizeIdle
    /\ ScoreIdle
    /\ SummarizeIdle
    /\ DashboardIdle
    /\ snipIn \in SnippetInputs
    /\ snipOut = NotCalled

\* snippet: generateSnippet(chunk.text, queryTokens)
SnippetCall ==
    /\ snipIn.called
    /\ ~snipOut.called
    /\ snipOut' =
           [called |-> TRUE,
            bestStart |-> ScanWindows(snipIn.text, snipIn.queryTokens,
                                      SnippetMaxLength, 0, 0, 0),
            snippet |-> generateSnippet(snipIn.text, snipIn.queryTokens,
                                        SnippetMaxLength)]
    /\ UNCHANGED <<searchVars, parked, tokVars, scoreVars, sumVars, uiVars, snipIn>>

NextSnippet == SnippetCall

SpecSnippet == InitSnippet /\ [][NextSnippet]_vars

\* the offsets the loop scans
ScannedOffsets(text) ==
    {i \in 0..Len(text) :
        i % SnippetStride = 0 /\ i < Len(text) - SnippetMaxLength}

\* number of query tokens that occur in the window at offset i
MatchesAt(text, queryTokens, i) ==
    WindowMatches(slice(lowerText(text), i, i + SnippetMaxLength), queryTokens)

\* C21: generateSnippet returns the window at the smallest scanned offset
\* whose number of query tokens found in it (as substrings, ignoring case)
\* is the largest; with no query token in any scanned window it returns the
\* window at offset 0.
C21_FirstBestWindow ==
    snipOut.called =>
        LET text    == snipIn.text
            scanned == ScannedOffsets(text)
            count   == [i \in scanned |-> MatchesAt(text, snipIn.queryTokens, i)]
            best    == snipOut.bestStart
        IN  IF \A i \in scanned : count[i] = 0 THEN best = 0
            ELSE /\ best \in scanned
                 /\ \A i \in scanned :
                        /\ count[i] <= count[best]
                        /\ count[i] = count[best] => best <= i

\* three windows are scanned; the second and the third hold both terms, the
\* first holds one, and the second is returned
C21_Witness ==
    /\ snipOut.called
    /\ snipOut.bestStart = SnippetStride
    /\ MatchesAt(snipIn.text, snipIn.queryTokens, 0) = 1
    /\ MatchesAt(snipIn.text, snipIn.queryTokens, SnippetStride) = 2
    /\ 2 * SnippetStride \in ScannedOffsets(snipIn.text)
    /\ MatchesAt(snipIn.text, snipIn.queryTokens, 2 * SnippetStride) = 2

\* C22: for a text longer than the window width the scanned windows cover
\* the text: every character offset lies in a scanned window, so when a
\* query token occurs anywhere in the text, the window returned holds at
\* least one query token.
C22_WindowsCoverText ==
    (snipOut.called /\ Len(snipIn.text) > SnippetMaxLength) =>
        /\ \A k \in 0..(Len(snipIn.text) - 1) :
               \E i \in ScannedOffsets(snipIn.text) :
                   i <= k /\ k < i + SnippetMaxLength
        /\ WindowMatches(lowerText(snipIn.text), snipIn.queryTokens) > 0 =>
               MatchesAt(snipIn.text, snipIn.queryTokens, snipOut.bestStart) > 0

StartsWith(t, prefix) ==
    Len(t) >= Len(prefix) /\ SubSeq(t, 1, Len(prefix)) = prefix

EndsWith(t, suffix) ==
    Len(t) >= Len(suffix) /\ SubSeq(t, Len(t) - Len(suffix) + 1, Len(t)) = suffix

C25_NoChunksIs400 ==
    (/\ sumPc = "responded"
     /\ sumBody.called
     /\ sumBody.json
     /\ (sumBody.chunks.kind # "list" \/ sumBody.chunks.list = <<>>)) =>
        /\ sumResponse = NoChunksProvided
        /\ ~upstream.called

\* ---------------------------------------------------------------------
\* The handler over an index that may hold files of the wrong shape: a
\* manifest that parses but is no array, a shard that parses but has no
\* chunks.  Reading them raises a TypeError outside the inner try blocks.
\* ---------------------------------------------------------------------
FaultyFileStates == FileStates \cup {"malformed"}

FaultyRequests ==
    {p \in Requests :
        /\ p.q \in {Absent, Given(TextAI)}
        /\ Unfiltered(p)
        /\ ~p.size.has}

InitFaulty ==
    /\ rev \in Revisions
    /\ manifestFile \in FaultyFileStates
    /\ shardFile \in UNION {[1..n -> FaultyFileStates] : n \in 0..MaxManifest}
    /\ (manifestFile # "ok" => shardFile = <<>>)
    /\ HandlerIdle
    /\ TokenizeIdle
    /\ ScoreIdle
    /\ SummarizeIdle
    /\ SnippetIdle
    /\ DashboardIdle

NextFaulty ==
    \/ \E p \in FaultyRequests : Receive(p)
    \/ ManifestSettle
    \/ \E i \in 1..(MaxManifest + 1) : ShardSettle(i)
    \/ Rank
    \/ Done

SpecFaulty == InitFaulty /\ [][NextFaulty]_vars

\* an exception was raised that neither the manifest's nor a shard's own
\* try block handles
EscapedException ==
    /\ fetches # <<>>
    /\ \/ manifestFile = "malformed"
       \/ rev = "fetch" /\ manifestFile \in {"throw", "badjson"}
       \/ \E i \in DOMAIN shardResult : shardResult[i] = "rejected"
       \/ /\ shardResult # <<>>
          /\ \A i \in DOMAIN shardResult : shardResult[i] \in Resolved
          /\ \E i \in DOMAIN shardResult : shardResult[i] = "malformed"

\* C26: every search request gets exactly one response; an exception that
\* no more specific path handles is answered 500 "Search failed" with
\* hits = [] and count = 0, never by a response with partial hits and never
\* by no response at all (while the shards are read, either a read is still
\* pending or all have resolved and the ranking can answer).
C26_EscapedExceptionIs500 ==
    /\ [](/\ pc = "responded" <=> response # NoResponse
          /\ pc = "responded" => (response.status = 500 <=> EscapedException)
          /\ response.status = 500 =>
                 /\ response.body.error = "Search failed"
                 /\ response.body.hits = <<>>
                 /\ response.body.count = 0
          /\ (pc = "responded" /\ EscapedException) => response.body.hits = <<>>
          /\ pc = "shards" =>
                 \/ \E i \in DOMAIN shardResult : shardResult[i] = "pending"
                 \/ \A i \in DOMAIN shardResult : shardResult[i] \in Resolved)
    /\ [][pc = "responded" /\ pc' = "responded" => response' = response]_vars

\* the deployed handler read one good shard and one without chunks
C26_Witness ==
    /\ rev = "edge"
    /\ pc = "responded"
    /\ req.q = Given(TextAI)
    /\ shardResult = <<"loaded", "malformed">>
    /\ response.status = 500
    /\ response.body.hits = <<>>

\* ---------------------------------------------------------------------
\* The dashboard component.  dash names the copy that is mounted: "page1"
\* and "page2" are the two ModernDashboard of page.tsx, "gov" is the
\* GovITDashboard.  A handler runs with the state of the render that
\* created it; a fetch in flight keeps what its closure holds.
\* ---------------------------------------------------------------------
MaxSearches == 2
MaxSummaries == 1
MaxClicks == 1

\* data.hits.slice(0, 3), filteredResults.slice(0, 3)
SummaryChunks == 3

Pages == {"page1", "page2"}

Dashboards == Pages \cup {"gov"}

\* what the user types: nothing, a blank, a term, two terms
UiQueries == {<<>>, <<" ">>, TextAI, TextAIK12}

\* the suggestion buttons
Suggestions == {TextAIK12}

\* the hits of a response to a search for q: n results
Hit(q, j) == [q |-> q, rank |-> j]

Hits(q, n) == [j \in 1..n |-> Hit(q, j)]

\* the index the searches run on does not change while the page is open:
\* one term has one more hit than are summarized, the other queries none
HitCount(q) == IF q = TextAI THEN SummaryChunks + 1 ELSE 0

\* how the fetch of a search for q can settle
SearchOutcomes(q) ==
    {[kind |-> "ok", n |-> HitCount(q)],
     [kind |-> "notok", n |-> 0], [kind |-> "throw", n |-> 0]}

SummarizeOutcomes == {"ok", "notok", "throw"}

\* try: "ok"; catch (a response that is not OK, a fetch that throws): "failed"
Outcome(kind) == IF kind = "ok" THEN "ok" ELSE "failed"

SearchCalls == {c \in calls : c.kind = "search"}

SummarizeCalls == {c \in calls : c.kind = "summarize"}

\* the number the next run of a handler that fetches gets
NextId == issued.search + issued.summarize + 1

InitDashboard ==
    /\ rev = "edge"
    /\ manifestFile = "ok"
    /\ shardFile = <<>>
    /\ HandlerIdle
    /\ TokenizeIdle
    /\ ScoreIdle
    /\ SummarizeIdle
    /\ SnippetIdle
    /\ dash \in Dashboards
    /\ Mounted

\* handleSearch of a render whose query is q
handleSearch(q) ==
    IF trim(q) = <<>>
    THEN UNCHANGED <<searching, error, hasSearched, summary, calls, issued>>
    ELSE /\ issued.search < MaxSearches
         /\ searching' = TRUE
         /\ IF dash \in Pages
            THEN error' = "null" /\ hasSearched' = FALSE /\ summary' = NotCalled
            ELSE UNCHANGED <<error, hasSearched, summary>>
         /\ calls' = calls \cup {[kind |-> "search", id |-> NextId, q |-> q,
                                  chunks |-> <<>>]}
         /\ issued' = [issued EXCEPT !.search = @ + 1]

\* onChange of the query box
setQuery(q) ==
    /\ q # uiQuery
    /\ uiQuery' = q
    /\ UNCHANGED <<dash, searching, summarizing, hasSearched, searchResults,
                   summary, error, selectedDocs, calls, timers, issued, fired,
                   settled>>
    /\ UNCHANGED <<searchVars, parked, tokVars, scoreVars, sumVars, snipVars>>

\* onKeyDown: Enter calls handleSearch whatever the state of the search
PressEnter ==
    /\ handleSearch(uiQuery)
    /\ UNCHANGED <<dash, uiQuery, summarizing, searchResults, selectedDocs,
                   timers, fired, settled>>
    /\ UNCHANGED <<searchVars, parked, tokVars, scoreVars, sumVars, snipVars>>

\* disabled={!query.trim() || searching}; disabled={loading}
SearchButtonEnabled ==
    IF dash \in Pages THEN trim(uiQuery) # <<>> /\ ~searching ELSE ~searching

\* onClick of the search button
ClickSearch ==
    /\ SearchButtonEnabled
    /\ handleSearch(uiQuery)
    /\ UNCHANGED <<dash, uiQuery, summarizing, searchResults, selectedDocs,
                   timers, fired, settled>>
    /\ UNCHANGED <<searchVars, parked, tokVars, scoreVars, sumVars, snipVars>>

\* onClick of a suggestion: setQuery(suggestion); setTimeout(handleSearch, 100)
\* with the handleSearch of the render that is on screen
ClickSuggestion(s) ==
    /\ dash \in Pages
    /\ ~hasSearched
    /\ Cardinality(timers) + Len(fired) < MaxClicks
    /\ uiQuery' = s
    /\ timers' = timers \cup {[q |-> uiQuery, suggestion |-> s]}
    /\ UNCHANGED <<dash, searching, summarizing, hasSearched, searchResults,
                   summary, error, selectedDocs, calls, issued, fired, settled>>
    /\ UNCHANGED <<searchVars, parked, tokVars, scoreVars, sumVars, snipVars>>

\* the timer runs its callback
Timeout(t) ==
    /\ t \in timers
    /\ timers' = timers \ {t}
    /\ handleSearch(t.q)
    /\ fired' = Append(fired, [suggestion |-> t.suggestion, box |-> t.q,
                               searched |-> trim(t.q) # <<>>, q |-> t.q])
    /\ UNCHANGED <<dash, uiQuery, summarizing, searchResults, selectedDocs,
                   settled>>
    /\ UNCHANGED <<searchVars, parked, tokVars, scoreVars, sumVars, snipVars>>

\* mutant: setSearching(false) at the end of the try block, not in finally
SearchSettlesNoFinally(c, o) ==
    /\ c \in SearchCalls
    /\ settled' = [last   |-> [kind |-> "search", id |-> c.id,
                               outcome |-> Outcome(o.kind)],
                   search |-> IF c.id > settled.search.id
                              THEN [id |-> c.id, q |-> c.q,
                                    outcome |-> Outcome(o.kind)]
                              ELSE settled.search]
    /\ searching' = (o.kind # "ok" /\ searching)
    /\ searchResults' = IF o.kind = "ok" THEN Hits(c.q, o.n) ELSE searchResults
    /\ IF dash \in Pages
       THEN /\ hasSearched' = TRUE
            /\ error' = IF o.kind = "ok" THEN error ELSE "search"
            /\ IF o.kind = "ok" /\ o.n > 0
               THEN /\ summarizing' = TRUE
                    /\ calls' = (calls \ {c})
                                   \cup {[kind |-> "summarize", id |-> NextId,
                                          q |-> c.q,
                                          chunks |-> slice(Hits(c.q, o.n), 0,
                                                          SummaryChunks)]}
                    /\ issued' = [issued EXCEPT !.summarize = @ + 1]
               ELSE /\ calls' = calls \ {c}
                    /\ UNCHANGED <<summarizing, issued>>
       ELSE /\ calls' = calls \ {c}
            /\ UNCHANGED <<hasSearched, error, summarizing, issued>>
    /\ UNCHANGED <<dash, uiQuery, summary, selectedDocs, timers, fired>>
    /\ UNCHANGED <<searchVars, parked, tokVars, scoreVars, sumVars, snipVars>>

\* the fetch of search call c settles with outcome o, and handleSearch runs
\* to its end; generateSummary is called and not awaited
SearchSettles(c, o) ==
    /\ c \in SearchCalls
    /\ settled' = [last   |-> [kind |-> "search", id |-> c.id,
                               outcome |-> Outcome(o.kind)],
                   search |-> IF c.id > settled.search.id
                              THEN [id |-> c.id, q |-> c.q,
                                    outcome |-> Outcome(o.kind)]
                              ELSE settled.search]
    /\ searching' = FALSE
    /\ searchResults' = IF o.kind = "ok" THEN Hits(c.q, o.n) ELSE searchResults
    /\ IF dash \in Pages
       THEN /\ hasSearched' = TRUE
            /\ error' = IF o.kind = "ok" THEN error ELSE "search"
            /\ IF o.kind = "ok" /\ o.n > 0
               THEN /\ summarizing' = TRUE
                    /\ calls' = (calls \ {c})
                                   \cup {[kind |-> "summarize", id |-> NextId,
                                          q |-> c.q,
                                          chunks |-> slice(Hits(c.q, o.n), 0,
                                                          SummaryChunks)]}
                    /\ issued' = [issued EXCEPT !.summarize = @ + 1]
               ELSE /\ calls' = calls \ {c}
                    /\ UNCHANGED <<summarizing, issued>>
       ELSE /\ calls' = calls \ {c}
            /\ UNCHANGED <<hasSearched, error, summarizing, issued>>
    /\ UNCHANGED <<dash, uiQuery, summary, selectedDocs, timers, fired>>
    /\ UNCHANGED <<searchVars, parked, tokVars, scoreVars, sumVars, snipVars>>

\* onChange of the checkbox of a result (the first one on screen)
toggleDocSelection(d) ==
    /\ dash = "gov"
    /\ searchResults # <<>>
    /\ d = searchResults[1]
    /\ selectedDocs' = IF d \in selectedDocs THEN selectedDocs \ {d}
                       ELSE selectedDocs \cup {d}
    /\ UNCHANGED <<dash, uiQuery, searching, summarizing, hasSearched,
                   searchResults, summary, error, calls, timers, issued, fired,
                   settled>>
    /\ UNCHANGED <<searchVars, parked, tokVars, scoreVars, sumVars, snipVars>>

\* the chunks handleSummarize picks (no agency or meeting filter is set)
ChunksToSummarize(mode) ==
    IF mode = "auto" THEN slice(searchResults, 0, SummaryChunks)
    ELSE SelectSeq(searchResults, LAMBDA r : r \in selectedDocs)

\* disabled={filteredResults.length === 0 || summaryLoading};
\* disabled={selectedDocs.size === 0 || summaryLoading}
SummarizeButtonEnabled(mode) ==
    /\ ~summarizing
    /\ IF mode = "auto" THEN searchResults # <<>> ELSE selectedDocs # {}

\* onClick of a summarize button: handleSummarize(mode) up to its fetch, or
\* to its early return
handleSummarize(mode) ==
    /\ dash = "gov"
    /\ SummarizeButtonEnabled(mode)
    /\ issued.summarize < MaxSummaries
    /\ issued' = [issued EXCEPT !.summarize = @ + 1]
    /\ IF ChunksToSummarize(mode) = <<>>
       THEN /\ summarizing' = FALSE
            /\ settled' = [settled EXCEPT
                              !.last = [kind |-> "summarize", id |-> NextId,
                                        outcome |-> "nothing"]]
            /\ UNCHANGED calls
       ELSE /\ summarizing' = TRUE
            /\ calls' = calls \cup {[kind |-> "summarize", id |-> NextId,
                                     q |-> uiQuery,
                                     chunks |-> ChunksToSummarize(mode)]}
            /\ UNCHANGED settled
    /\ UNCHANGED <<dash, uiQuery, searching, hasSearched, searchResults,
                   summary, error, selectedDocs, timers, fired>>
    /\ UNCHANGED <<searchVars, parked, tokVars, scoreVars, sumVars, snipVars>>

\* mutant: a failed summary clears the results
SummarizeSettlesClears(c, o) ==
    /\ c \in SummarizeCalls
    /\ settled' = [settled EXCEPT
                      !.last = [kind |-> "summarize", id |-> c.id,
                                outcome |-> Outcome(o)]]
    /\ calls' = calls \ {c}
    /\ summary' = IF o = "ok" THEN [called |-> TRUE, q |-> c.q, chunks |-> c.chunks]
                  ELSE summary
    /\ error' = IF o # "ok" /\ dash = "page1" THEN "summary" ELSE error
    /\ summarizing' = FALSE
    /\ searchResults' = IF o = "ok" THEN searchResults ELSE <<>>
    /\ UNCHANGED <<dash, uiQuery, searching, hasSearched, selectedDocs, timers,
                   issued, fired>>
    /\ UNCHANGED <<searchVars, parked, tokVars, scoreVars, sumVars, snipVars>>

\* the fetch of summarize call c settles with outcome o
SummarizeSettles(c, o) ==
    /\ c \in SummarizeCalls
    /\ settled' = [settled EXCEPT
                      !.last = [kind |-> "summarize", id |-> c.id,
                                outcome |-> Outcome(o)]]
    /\ calls' = calls \ {c}
    /\ summary' = IF o = "ok" THEN [called |-> TRUE, q |-> c.q, chunks |-> c.chunks]
                  ELSE summary
    /\ error' = IF o # "ok" /\ dash = "page1" THEN "summary" ELSE error
    /\ summarizing' = FALSE
    /\ UNCHANGED <<dash, uiQuery, searching, hasSearched, searchResults,
                   selectedDocs, timers, issued, fired>>
    /\ UNCHANGED <<searchVars, parked, tokVars, scoreVars, sumVars, snipVars>>

NextDashboard ==
    \/ \E q \in UiQueries : setQuery(q)
    \/ PressEnter
    \/ ClickSearch
    \/ \E s \in Suggestions : ClickSuggestion(s)
    \/ \E t \in timers : Timeout(t)
    \/ \E c \in calls : \E o \in SearchOutcomes(c.q) : SearchSettles(c, o)
    \/ \E d \in {searchResults[k] : k \in DOMAIN searchResults} : toggleDocSelection(d)
    \/ \E mode \in {"auto", "selected"} : handleSummarize(mode)
    \/ \E c \in calls, o \in SummarizeOutcomes : SummarizeSettles(c, o)

SpecDashboard == InitDashboard /\ [][NextDashboard]_vars

\* the result list is on screen
HitsDisplayed ==
    IF dash \in Pages THEN hasSearched /\ ~searching /\ searchResults # <<>>
    ELSE searchResults # <<>>

\* the step just taken is a summarize fetch that failed
SummarizeFailed(before, after) ==
    /\ after.last # before.last
    /\ after.last.kind = "summarize"
    /\ after.last.outcome = "failed"

\* C24: a summarize call that fails (not OK, or throws) leaves searchResults
\* as they are and the hits on screen, sets no summary, ends with
\* summarizing (summaryLoading) false, and changes nothing a later search
\* depends on.
C24_FailedSummaryKeepsHits ==
    [][SummarizeFailed(settled, settled') =>
          /\ searchResults' = searchResults
          /\ HitsDisplayed' <=> HitsDisplayed
          /\ summary' = summary
          /\ summarizing' = FALSE
          /\ searching' = searching
          /\ uiQuery' = uiQuery
          /\ SearchButtonEnabled' <=> SearchButtonEnabled]_vars

\* a summary has just failed, the hits are on screen, there is no summary,
\* and the search button can be pressed
C24_Witness ==
    /\ settled.last.kind = "summarize"
    /\ settled.last.outcome = "failed"
    /\ HitsDisplayed
    /\ summary = NotCalled
    /\ ~summarizing
    /\ SearchButtonEnabled
    /\ issued.search < MaxSearches

\* C27: with two searches started one after the other (Enter does not look
\* at searching), once both have settled, in whichever order, searchResults
\* holds the hits of the search that was started last: no hit on screen
\* answers another query than the last one sent.
C27_LastIssuedSearchWins ==
    (SearchCalls = {} /\ issued.search >= 2 /\ settled.search.outcome = "ok") =>
        \A k \in DOMAIN searchResults : searchResults[k].q = settled.search.q

\* C28: in page.tsx, whenever a summary is set and no request is in flight,
\* it was generated from the first (at most three) hits of the current
\* searchResults: a summarize response that is stale never sets the summary
\* after a newer search has cleared it.
C28_SummaryMatchesResults ==
    (dash \in Pages /\ summary.called /\ calls = {}) =>
        summary.chunks = slice(searchResults, 0, SummaryChunks)

\* ---------------------------------------------------------------------
\* The dashboard with fetches that settle: a promise returned by fetch is
\* resolved or rejected in the end, and the event loop then runs the rest
\* of the handler.
\* ---------------------------------------------------------------------
SearchFetchSettles ==
    \E c \in calls : \E o \in SearchOutcomes(c.q) : SearchSettles(c, o)

SummarizeFetchSettles ==
    \E c \in calls, o \in SummarizeOutcomes : SummarizeSettles(c, o)

\* the searches and summaries the user starts from the query box and the
\* buttons, with a query that is not blank
NextDashboardFair ==
    \/ \E q \in {q \in UiQueries : trim(q) # <<>>} : setQuery(q)
    \/ PressEnter
    \/ ClickSearch
    \/ SearchFetchSettles
    \/ \E d \in {searchResults[k] : k \in DOMAIN searchResults} : toggleDocSelection(d)
    \/ \E mode \in {"auto", "selected"} : handleSummarize(mode)
    \/ SummarizeFetchSettles

SpecDashboardFair ==
    /\ InitDashboard
    /\ [][NextDashboardFair]_vars
    /\ WF_vars(SearchFetchSettles)
    /\ WF_vars(SummarizeFetchSettles)

\* the step just taken ended a run of a handler of the given kind
Ended(kind, before, after) ==
    /\ after.last # before.last
    /\ after.last.kind = kind

\* C29: every search that was started sets searching (loading) back to
\* false when its fetch settles, whether OK, not OK or thrown, and every
\* summarize call sets summarizing (summaryLoading) back to false, the
\* early return of handleSummarize included; so neither flag stays true
\* for ever.
C29_FlagsAreReset ==
    /\ [][Ended("search", settled, settled') => searching' = FALSE]_vars
    /\ [][Ended("summarize", settled, settled') => summarizing' = FALSE]_vars
    /\ [](SearchCalls # {} => <>(SearchCalls = {} /\ ~searching))
    /\ [](SummarizeCalls # {} => <>(SummarizeCalls = {} /\ ~summarizing))

\* handleSummarize has returned early for want of documents, after two
\* searches, and both flags are false
C29_Witness ==
    /\ dash = "gov"
    /\ settled.last.outcome = "nothing"
    /\ issued.search = 2
    /\ calls = {}
    /\ ~searching
    /\ ~summarizing

\* C30: after a click on a suggestion with the query box empty, the
\* handleSearch run by the timer sends a search whose q is the suggestion.
C30_SuggestionIsSearched ==
    \A k \in DOMAIN fired :
        fired[k].box = <<>> =>
            fired[k].searched /\ fired[k].q = fired[k].suggestion
====
